---- MODULE Spec2Model ----
(***************************************************************************)
(* A model of the Star run time (fixed slab allocator, variable allocator, *)
(* shadow stack and collector) and of the code the WebAssembly emitter     *)
(* produces around it.  The three linear memories are modelled word by     *)
(* word: a memory is a function from byte addresses (multiples of 4) to    *)
(* 32-bit words, kept sparse (a word that is 0 is not in the domain).      *)
(***************************************************************************)
EXTENDS Integers, Sequences, FiniteSets, TLC

(***************************************************************************)
(* Bounds of the model.                                                    *)
(***************************************************************************)
\* alloc_memory_size() of the fixed heap, in 8-byte units
FixedMemUnits == 140
\* number of types that register() is called for
MaxTypes == 2
\* number of allocator calls explored after the registration phase
MaxFixedOps == 4
\* number of records a client keeps allocated at one time
MaxLive == 3
\* largest batch size N of the slab reuse scenario
MaxBatch == 3
\* memory_size() of the variable heap, in 8-byte units
VarMemUnits == 10
\* largest element count a client asks dalloc for
MaxVarLen == 3
\* number of calls explored on the variable heap
MaxVarOps == 6
\* largest number of slots of a shadow frame
MaxSlots == 2
\* largest number of nested shadow frames
MaxFrames == 3
\* number of calls explored on the shadow stack
MaxShadowOps == 5
\* number of loop rounds a collection is followed for
MarkFuel == 4096
\* number of steps explored of a client of the collector
MaxGcOps == 6

(***************************************************************************)
(* Linear memory.                                                          *)
(***************************************************************************)
EmptyMem == [a \in {} |-> 0]

Word(m, a) == IF a \in DOMAIN m THEN m[a] ELSE 0

Pow256(k) == CASE k = 0 -> 1 [] k = 1 -> 256 [] k = 2 -> 65536 [] k = 3 -> 16777216
                  [] OTHER -> 1

\* read_u32: *(addr as *const u32); little endian, so a load that is not
\* word aligned takes the high bytes of one word and the low bytes of the next
read_u32(m, a) ==
    LET k == a % 4
        b == a - k
    IN IF k = 0 THEN Word(m, a)
       ELSE (Word(m, b) \div Pow256(k)) + (Word(m, b + 4) % Pow256(k)) * Pow256(4 - k)

\* a memory keeps only its non-zero words; @@ makes the result an explicit
\* table, so that a run of stores does not pile up unevaluated
SetWord(m, a, v) ==
    IF v = 0 THEN [x \in (DOMAIN m) \ {a} |-> m[x]] @@ EmptyMem
    ELSE (a :> v) @@ m

\* write_u32: *(addr as *mut u32) = val
write_u32(m, a, v) ==
    LET k == a % 4
        b == a - k
    IN IF k = 0 THEN SetWord(m, a, v)
       ELSE LET lo == (Word(m, b) % Pow256(k)) + (v % Pow256(4 - k)) * Pow256(k)
                hi == (Word(m, b + 4) \div Pow256(k)) * Pow256(k) + (v \div Pow256(4 - k))
            IN SetWord(SetWord(m, b, lo), b + 4, hi)

\* an access of 4 bytes at a lies inside a memory of size bytes; an address
\* computed below 0 stands for one that wrapped around 2^32
InBounds(a, size) == a >= 0 /\ a + 4 <= size

(***************************************************************************)
(* The fixed slab allocator, alloc/src/lib.rs.                             *)
(***************************************************************************)
TYPE_TABLE_INDEX == 12
TYPE_TABLE_RECORD_SIZE == 16
HEADER_SIZE == 8
BUMP_PTR_ADDR == 8
DATA_START_ADDR == 4
SLAB_BLOCKS == 32

alloc_memory_size == 8 * FixedMemUnits

InF(a) == InBounds(a, alloc_memory_size)

\* TYPE_TABLE_INDEX + (id * TYPE_TABLE_RECORD_SIZE) in 32-bit arithmetic: the
\* product wraps at 2^32, and a record beyond 16 MiB is out of every memory
\* of the model (a negative number stands for such an address)
TypeRecord(id) ==
    LET r == id % 268435456
    IN IF id < 0 \/ r >= 1048576 THEN -16777216
       ELSE TYPE_TABLE_INDEX + (r * TYPE_TABLE_RECORD_SIZE)

\* a result of a run-time function: the memory, whether it returned (ok) or
\* trapped on an access out of bounds, and the value returned
Res(m, ok, ret) == [m |-> m, ok |-> ok, ret |-> ret]

alloc_init == write_u32(EmptyMem, BUMP_PTR_ADDR, TYPE_TABLE_INDEX)

register(m, size, struct_count, list_count) ==
    LET bump == read_u32(m, BUMP_PTR_ADDR)
        m1 == write_u32(m, BUMP_PTR_ADDR, bump + TYPE_TABLE_RECORD_SIZE)
        m2 == write_u32(m1, DATA_START_ADDR, bump + TYPE_TABLE_RECORD_SIZE)
        m3 == write_u32(m2, bump, size)
        m4 == write_u32(m3, bump + 4, 0)
        m5 == write_u32(m4, bump + 8, struct_count)
        m6 == write_u32(m5, bump + 12, list_count)
    IN Res(m6, InF(bump + 12), 0)

\* the loop "for i in 0..31" of falloc that threads a fresh slab
RECURSIVE CarveSlab(_, _, _, _, _)
CarveSlab(r, bump, block_size, id, i) ==
    IF ~r.ok \/ i >= SLAB_BLOCKS - 1 THEN r
    ELSE LET addr == bump + (i * block_size)
             m1 == write_u32(r.m, addr, id)
             m2 == write_u32(m1, addr + HEADER_SIZE, addr + block_size)
         IN CarveSlab(Res(m2, InF(addr + HEADER_SIZE), 0), bump, block_size, id, i + 1)

falloc(m, id) ==
    LET start == TypeRecord(id)
        size == read_u32(m, start)
        free0 == read_u32(m, start + 4)
        bump == read_u32(m, BUMP_PTR_ADDR)
        block_size == HEADER_SIZE + size
        slab_size == SLAB_BLOCKS * block_size
        last == bump + ((SLAB_BLOCKS - 1) * block_size)
        threaded == CarveSlab(Res(write_u32(m, BUMP_PTR_ADDR, bump + slab_size), TRUE, 0),
                              bump, block_size, id, 0)
        carved == Res(write_u32(write_u32(threaded.m, last, id), last + HEADER_SIZE, 0),
                      threaded.ok /\ InF(last + HEADER_SIZE), 0)
    IN IF ~InF(start + 4) THEN Res(m, FALSE, 0)
       ELSE IF free0 = 0 /\ bump + slab_size > alloc_memory_size THEN Res(m, TRUE, 0)
       ELSE LET r1 == IF free0 = 0 THEN carved ELSE Res(m, TRUE, 0)
                free == IF free0 = 0 THEN bump ELSE free0
                next == read_u32(r1.m, free + HEADER_SIZE)
            IN IF ~r1.ok \/ ~InF(free + HEADER_SIZE) THEN Res(m, FALSE, 0)
               ELSE Res(write_u32(r1.m, start + 4, next), TRUE, free + HEADER_SIZE)

\* ffree that links the block to the freelist but leaves the head where it was
ffree_keeps_head(m, pointer) ==
    LET addr == pointer - HEADER_SIZE
        id == read_u32(m, addr)
        start == TypeRecord(id)
        free == read_u32(m, start + 4)
        m1 == write_u32(m, addr + HEADER_SIZE, free)
    IN IF ~InF(addr) \/ ~InF(start + 4) \/ ~InF(addr + HEADER_SIZE)
       THEN Res(m, FALSE, 0)
       ELSE Res(m1, TRUE, 0)

ffree(m, pointer) ==
    LET addr == pointer - HEADER_SIZE
        id == read_u32(m, addr)
        start == TypeRecord(id)
        free == read_u32(m, start + 4)
        m1 == write_u32(m, addr + HEADER_SIZE, free)
        m2 == write_u32(m1, start + 4, addr)
    IN IF ~InF(addr) \/ ~InF(start + 4) \/ ~InF(addr + HEADER_SIZE)
       THEN Res(m, FALSE, 0)
       ELSE Res(m2, TRUE, 0)

\* the loop "for t in 0..num_types" of sweep that empties every freelist
RECURSIVE ClearFreelists(_, _, _)
ClearFreelists(r, t, num_types) ==
    IF ~r.ok \/ t >= num_types THEN r
    ELSE LET a == TYPE_TABLE_INDEX + (t * TYPE_TABLE_RECORD_SIZE) + 4
         IN ClearFreelists(Res(write_u32(r.m, a, 0), InF(a), 0), t + 1, num_types)

\* the loop "for i in 0..32" of sweep over the blocks of one slab
RECURSIVE SweepSlab(_, _, _, _)
SweepSlab(r, current_addr, current_size, i) ==
    IF i >= SLAB_BLOCKS \/ ~r.ok THEN r
    ELSE LET block_addr == current_addr + (i * (HEADER_SIZE + current_size))
             is_marked == read_u32(r.m, block_addr + 4)
             r1 == IF ~InF(block_addr + 4) THEN Res(r.m, FALSE, 0)
                   ELSE IF is_marked = 1
                        THEN Res(write_u32(r.m, block_addr + 4, 0), TRUE, 0)
                        ELSE ffree(r.m, block_addr + HEADER_SIZE)
         IN SweepSlab(r1, current_addr, current_size, i + 1)

\* the loop "while current_addr < bump_ptr" of sweep
RECURSIVE SweepSlabs(_, _, _)
SweepSlabs(r, current_addr, bump_ptr) ==
    IF ~r.ok \/ current_addr >= bump_ptr THEN r
    ELSE LET ty == read_u32(r.m, current_addr)
             current_size == read_u32(r.m, TypeRecord(ty))
             r1 == IF ~InF(current_addr) \/ ~InF(TypeRecord(ty))
                   THEN Res(r.m, FALSE, 0)
                   ELSE SweepSlab(r, current_addr, current_size, 0)
         IN SweepSlabs(r1, current_addr + (SLAB_BLOCKS * (HEADER_SIZE + current_size)),
                       bump_ptr)

\* alloc's sweep.  With no type registered data_start reads 0 and
\* data_start - TYPE_TABLE_INDEX wraps: the first loop then runs off the memory
sweep(m) ==
    LET data_start == read_u32(m, DATA_START_ADDR)
        num_types == (data_start - TYPE_TABLE_INDEX) \div TYPE_TABLE_RECORD_SIZE
        bump_ptr == read_u32(m, BUMP_PTR_ADDR)
    IN IF data_start < TYPE_TABLE_INDEX THEN Res(m, FALSE, 0)
       ELSE SweepSlabs(ClearFreelists(Res(m, TRUE, 0), 0, num_types), data_start, bump_ptr)

(***************************************************************************)
(* The variable allocator, dalloc/src/lib.rs.  A block is                  *)
(* [type_tag @+0, mark @+4, size_bytes @+8, length @+12, payload @+16,     *)
(* size_trailer @+16+size_bytes]; the user pointer is the block + 16.      *)
(***************************************************************************)
START == 4
BLOCK_OVERHEAD == 20
USER_OFFSET == 16

memory_size == 8 * VarMemUnits

InD(a) == InBounds(a, memory_size)

dinit ==
    LET size == memory_size
        m1 == write_u32(EmptyMem, START, 0)
        m2 == write_u32(m1, START + 4, 0)
        m3 == write_u32(m2, START + 8, size - 24)
        m4 == write_u32(m3, START + 12, size - 24)
    IN write_u32(m4, size - 4, size - 24)

\* the loop "while current_addr < memory_size()" of dalloc
RECURSIVE DallocWalk(_, _, _, _)
DallocWalk(m, ty, length, current_addr) ==
    LET size == length * 8
        current_ty == read_u32(m, current_addr)
        current_size == read_u32(m, current_addr + 8)
        left == current_size - size - BLOCK_OVERHEAD
        new_start == current_addr + BLOCK_OVERHEAD + size
        m1 == write_u32(m, current_addr, ty)
        m2 == write_u32(m1, current_addr + 8, size)
        m3 == write_u32(m2, current_addr + 12, length)
        m4 == write_u32(m3, current_addr + 16 + size, size)
        m5 == write_u32(m4, new_start, 0)
        m6 == write_u32(m5, new_start + 4, 0)
        m7 == write_u32(m6, new_start + 8, left)
        m8 == write_u32(m7, new_start + 12, left)
        m9 == write_u32(m8, new_start + 16 + left, left)
    IN IF current_addr >= memory_size THEN Res(m, TRUE, 0)
       ELSE IF ~InD(current_addr + 8) THEN Res(m, FALSE, 0)
       ELSE IF current_ty = 0 /\ size + BLOCK_OVERHEAD <= current_size
            THEN Res(m9, InD(new_start + 16 + left), current_addr + USER_OFFSET)
       ELSE IF current_ty = 0 /\ size <= current_size
            THEN Res(write_u32(m, current_addr, ty), TRUE, current_addr + USER_OFFSET)
       ELSE DallocWalk(m, ty, length, current_addr + current_size + BLOCK_OVERHEAD)

dalloc(m, ty, length) == DallocWalk(m, ty, length, START)

\* dfree up to its first "if": the tag is cleared; ret holds the block address
ClearTag(m, pointer) ==
    LET addr == pointer - USER_OFFSET
    IN Res(write_u32(m, addr, 0), InD(addr), addr)

\* "if end < memory_size()": merge the block at r.ret with a free successor
CoalesceNext(r) ==
    LET addr == r.ret
        size == read_u32(r.m, addr + 8)
        end == addr + BLOCK_OVERHEAD + size
        next_ty == read_u32(r.m, end)
        next_size == read_u32(r.m, end + 8)
        combined_size == size + BLOCK_OVERHEAD + next_size
        m1 == write_u32(r.m, addr + 8, combined_size)
        m2 == write_u32(m1, addr + 12, combined_size)
        m3 == write_u32(m2, addr + 16 + combined_size, combined_size)
    IN IF ~r.ok \/ ~InD(addr + 8) THEN Res(r.m, FALSE, 0)
       ELSE IF end >= memory_size THEN r
       ELSE IF ~InD(end) THEN Res(r.m, FALSE, 0)
       ELSE IF next_ty # 0 THEN r
       ELSE Res(m3, InD(end + 8) /\ InD(addr + 16 + combined_size), addr)

\* "if addr > START": merge the block at r.ret into a free predecessor, which
\* the size trailer before the block locates
CoalescePrev(r) ==
    LET addr == r.ret
        prev_size == read_u32(r.m, addr - 4)
        prev_addr == addr - BLOCK_OVERHEAD - prev_size
        prev_ty == read_u32(r.m, prev_addr)
        combined_size == prev_size + BLOCK_OVERHEAD + read_u32(r.m, addr + 8)
        m1 == write_u32(r.m, prev_addr + 8, combined_size)
        m2 == write_u32(m1, prev_addr + 12, combined_size)
        m3 == write_u32(m2, prev_addr + 16 + combined_size, combined_size)
    IN IF ~r.ok THEN r
       ELSE IF addr <= START THEN r
       ELSE IF ~InD(addr - 4) \/ ~InD(prev_addr) THEN Res(r.m, FALSE, 0)
       ELSE IF prev_ty # 0 THEN r
       ELSE Res(m3, InD(addr + 8) /\ InD(prev_addr + 16 + combined_size), prev_addr)

\* dfree without the merge into a free predecessor
dfree_keeps_prev(m, pointer) == CoalesceNext(ClearTag(m, pointer))

\* dfree without the merge with a free successor
dfree_keeps_next(m, pointer) == CoalescePrev(ClearTag(m, pointer))

dfree(m, pointer) == CoalescePrev(CoalesceNext(ClearTag(m, pointer)))

\* the loop of dalloc's sweep; fuel bounds the unfolding (each round advances
\* by at least one block header on a well-formed heap)
RECURSIVE DSweepWalk(_, _, _)
DSweepWalk(r, current_addr, fuel) ==
    IF ~r.ok \/ current_addr >= memory_size THEN r
    ELSE IF fuel = 0 \/ ~InD(current_addr + 4) THEN Res(r.m, FALSE, 0)
    ELSE LET current_ty == read_u32(r.m, current_addr)
             current_mark == read_u32(r.m, current_addr + 4)
             freed == IF current_ty # 0 /\ current_mark = 0
                      THEN dfree(r.m, current_addr + USER_OFFSET)
                      ELSE Res(r.m, TRUE, current_addr)
             new_addr == freed.ret
             m1 == IF current_mark = 1 THEN write_u32(freed.m, current_addr + 4, 0)
                   ELSE freed.m
             ok == freed.ok /\ InD(new_addr + 8)
         IN DSweepWalk(Res(m1, ok, 0),
                       new_addr + read_u32(m1, new_addr + 8) + BLOCK_OVERHEAD, fuel - 1)

dsweep(m) == DSweepWalk(Res(m, TRUE, 0), START, VarMemUnits)

(***************************************************************************)
(* The shadow stack and the collector, shadow/src/lib.rs.  A frame of n    *)
(* slots is n pairs [tag, value] followed by the saved frame pointer.      *)
(***************************************************************************)
STACK_POINTER == 12
FRAME_POINTER == 12
STACK_POINTER_ADDR == 4
FRAME_POINTER_ADDR == 8
SLOT_SIZE == 8
PAGE_SIZE == 65536
SHADOW_PAGES == 1

shadow_memory_size == SHADOW_PAGES * PAGE_SIZE

InS(a) == InBounds(a, shadow_memory_size)

shadow_init ==
    write_u32(write_u32(EmptyMem, STACK_POINTER_ADDR, STACK_POINTER),
              FRAME_POINTER_ADDR, FRAME_POINTER)

\* the loop "for i in 0..size" of push that zeroes the slots
RECURSIVE ZeroSlots(_, _, _, _)
ZeroSlots(r, sp, i, size) ==
    IF ~r.ok \/ i >= size THEN r
    ELSE LET a == sp + (i * SLOT_SIZE)
         IN ZeroSlots(Res(write_u32(write_u32(r.m, a, 0), a + 4, 0),
                          InS(a) /\ InS(a + 4), 0), sp, i + 1, size)

push(s, size) ==
    LET offset == (size * SLOT_SIZE) + 4
        sp == read_u32(s, STACK_POINTER_ADDR)
        fp == read_u32(s, FRAME_POINTER_ADDR)
        r == ZeroSlots(Res(s, TRUE, 0), sp, 0, size)
        m1 == write_u32(r.m, sp + offset - 4, fp)
        m2 == write_u32(m1, FRAME_POINTER_ADDR, sp)
        m3 == write_u32(m2, STACK_POINTER_ADDR, sp + offset)
    IN IF r.ok /\ InS(sp + offset - 4) THEN Res(m3, TRUE, 0) ELSE Res(s, FALSE, 0)

pop(s) ==
    LET sp == read_u32(s, STACK_POINTER_ADDR)
        fp == read_u32(s, FRAME_POINTER_ADDR)
        m1 == write_u32(s, STACK_POINTER_ADDR, fp)
    IN IF InS(sp - 4) THEN Res(write_u32(m1, FRAME_POINTER_ADDR, read_u32(m1, sp - 4)), TRUE, 0)
       ELSE Res(s, FALSE, 0)

set(s, value, index, ty) ==
    LET fp == read_u32(s, FRAME_POINTER_ADDR)
        a == fp + (index * SLOT_SIZE)
    IN IF InS(a) /\ InS(a + 4) THEN Res(write_u32(write_u32(s, a, ty), a + 4, value), TRUE, 0)
       ELSE Res(s, FALSE, 0)

\* (sp - start) / 8 of mark is computed in u32: with a stack pointer below
\* the base it wraps, and the scan runs off the end of the memory
ScanTraps(s) ==
    LET sp == read_u32(s, STACK_POINTER_ADDR)
    IN sp < STACK_POINTER \/ sp > shadow_memory_size

ScanSize(s) ==
    IF ScanTraps(s) THEN 0
    ELSE (read_u32(s, STACK_POINTER_ADDR) - STACK_POINTER) \div SLOT_SIZE

\* the pairs of words mark reads, as <<address, ty, val>>, in scan order
RECURSIVE ScanPairs(_, _, _)
ScanPairs(s, i, size) ==
    IF i >= size THEN << >>
    ELSE LET a == STACK_POINTER + (i * SLOT_SIZE)
         IN << <<a, read_u32(s, a), read_u32(s, a + 4)>> >> \o ScanPairs(s, i + 1, size)

\* the calls mark_pointer(val, ty) that mark makes, as <<address, ty, val>>
MarkCalls(s) ==
    SelectSeq(ScanPairs(s, 0, ScanSize(s)), LAMBDA c : c[2] \in {1, 2})

\* the two heaps as the collector passes them along; ok is FALSE after a trap
Heaps(f, d, ok) == [f |-> f, d |-> d, ok |-> ok]

\* mark_pointer and its three loops, run on an explicit call stack.  A stack
\* entry is a loop in progress: kind "struct" is "for i in 0..scount", kind
\* "list" is "for i in 0..lcount" and kind "elem" is "for i in 0..length".
\* The field counts of a record are read with the module's own read_u32,
\* that is from the shadow memory s, at the offsets of the type table.
Marking(f, d, ok, stack) == [f |-> f, d |-> d, ok |-> ok, stack |-> stack]

Loop(kind, base, count, arg) == [kind |-> kind, base |-> base, i |-> 0, count |-> count,
                                 arg |-> arg]

Trap(st) == Marking(st.f, st.d, FALSE, << >>)

\* a call mark_pointer(pointer, memory) up to its first loop
Enter(st, s, pointer, memory) ==
    IF pointer = 0 THEN st
    ELSE IF memory = 1 THEN
        IF ~InF(pointer - 4) THEN Trap(st)
        ELSE IF read_u32(st.f, pointer - 4) = 1 THEN st
        ELSE IF ~InF(pointer - 8) THEN Trap(st)
        ELSE LET ty == read_u32(st.f, pointer - 8)
                 rec == TypeRecord(ty)
             IN IF ~InS(rec + 8) THEN Trap(st)
                ELSE Marking(write_u32(st.f, pointer - 4, 1), st.d, TRUE,
                             Append(st.stack,
                                    Loop("struct", pointer, read_u32(s, rec + 8), rec)))
    ELSE
        IF ~InD(pointer - 12) THEN Trap(st)
        ELSE IF read_u32(st.d, pointer - 12) = 1 THEN st
        ELSE IF ~InD(pointer - 4) \/ ~InD(pointer - 16) THEN Trap(st)
        ELSE Marking(st.f, write_u32(st.d, pointer - 12, 1), TRUE,
                     Append(st.stack, Loop("elem", pointer, read_u32(st.d, pointer - 4),
                                           read_u32(st.d, pointer - 16))))

\* one round of the loop on top of the stack, or the end of that loop
MarkStep(st, s) ==
    LET n == Len(st.stack)
        top == st.stack[n]
        rest == SubSeq(st.stack, 1, n - 1)
        addr == top.base + (top.i * 8)
        on == Marking(st.f, st.d, TRUE, Append(rest, [top EXCEPT !.i = top.i + 1]))
    IN IF top.i >= top.count
       THEN IF top.kind # "struct" THEN Marking(st.f, st.d, TRUE, rest)
            ELSE IF ~InS(top.arg + 12) THEN Trap(st)
            ELSE Marking(st.f, st.d, TRUE,
                         Append(rest, Loop("list", top.base + (top.count * 8),
                                           read_u32(s, top.arg + 12), 0)))
       ELSE IF top.kind = "struct" THEN
                IF InF(addr) THEN Enter(on, s, read_u32(st.f, addr), 1) ELSE Trap(st)
       ELSE IF top.kind = "list" THEN
                IF InF(addr) THEN Enter(on, s, read_u32(st.f, addr), 2) ELSE Trap(st)
       ELSE IF ~InD(addr) THEN Trap(st)
       ELSE IF top.arg \in {1, 2} THEN Enter(on, s, read_u32(st.d, addr), top.arg)
       ELSE on

\* up to fuel rounds, in order; the rounds are halved only to keep the
\* evaluation shallow
RECURSIVE MarkRun(_, _, _)
MarkRun(st, s, fuel) ==
    IF ~st.ok \/ st.stack = << >> THEN st
    ELSE IF fuel <= 1 THEN MarkStep(st, s)
    ELSE MarkRun(MarkRun(st, s, fuel \div 2), s, fuel - (fuel \div 2))

\* the heaps a finished call leaves; a call that needs more than MarkFuel
\* rounds is given up as a trap
Marked(st) == Heaps(st.f, st.d, st.ok /\ st.stack = << >>)

mark_pointer(g, s, pointer, memory) ==
    Marked(MarkRun(Enter(Marking(g.f, g.d, TRUE, << >>), s, pointer, memory), s, MarkFuel))

\* the loop of mark over the calls it makes
RECURSIVE MarkAll(_, _, _, _)
MarkAll(g, s, calls, k) ==
    IF ~g.ok \/ k > Len(calls) THEN g
    ELSE MarkAll(mark_pointer(g, s, calls[k][3], calls[k][2]), s, calls, k + 1)

mark(g, s) ==
    IF ScanTraps(s) THEN Heaps(g.f, g.d, FALSE)
    ELSE MarkAll(g, s, MarkCalls(s), 1)

\* gc: mark(); sweep(); dsweep(), each step run only if none before it trapped
SweepVar(f, r3) == Heaps(f, r3.m, r3.ok)

SweepFixed(r2, d) ==
    IF ~r2.ok THEN Heaps(r2.m, d, FALSE)
    ELSE SweepVar(r2.m, dsweep(d))

SweepBoth(g1) ==
    IF ~g1.ok THEN g1
    ELSE SweepFixed(sweep(g1.f), g1.d)

gc(g, s) == SweepBoth(mark(g, s))

(***************************************************************************)
(* State.                                                                  *)
(***************************************************************************)
VARIABLES
    fmem,       \* the linear memory of the fixed heap (module alloc)
    trapped,    \* a WebAssembly trap ended the program
    ftypes,     \* the <<size, struct_count, list_count>> registered, by type id
    flive,      \* pointers falloc returned that were not freed or swept since
    fops,       \* number of allocator calls made
    reuse,      \* the client of the slab reuse scenario
    dmem,       \* the linear memory of the variable heap (module dalloc)
    dlive,      \* pointers dalloc returned and not freed since -> length asked for
    dops,       \* number of calls made on the variable heap
    coal,       \* the last calls, as far as they free two adjacent blocks
    smem,       \* the linear memory of the shadow stack (module shadow)
    frames,     \* the frames pushed and not popped, as [base, size], oldest first
    marked,     \* the calls of mark_pointer the last mark() made
    sops,       \* number of calls made on the shadow stack
    gcs,        \* the client of the collector: its rooted record, the last gc()
    em,         \* the running compiled program: its calls and their locals
    cu          \* the compilation unit: what a pass of the compiler is given
                \* and what it made of it

vars == <<fmem, trapped, ftypes, flive, fops, reuse, dmem, dlive, dops, coal,
          smem, frames, marked, sops, gcs, em, cu>>

fixedVars == <<fmem, ftypes, flive, fops, reuse>>
varVars == <<dmem, dlive, dops, coal>>
shadowVars == <<smem, frames, marked, sops>>

\* what a client of the fixed heap alone leaves as it is
NotFixed == <<varVars, shadowVars, gcs, em, cu>>
\* what a client of the variable heap alone leaves as it is
NotVar == <<fixedVars, shadowVars, gcs, em, cu>>
\* what a client of the shadow stack alone leaves as it is
NotShadow == <<fixedVars, varVars, gcs, em, cu>>

TypeIds == 0 .. (Len(ftypes) - 1)

\* the shapes register() is called with: records of 0, 1 and 2 fields
FixedShapes == {<<0, 0, 0>>, <<8, 1, 0>>, <<16, 1, 1>>}

ReuseIdle == [phase |-> "idle", ty |-> 0, n |-> 0, first |-> <<>>, second |-> <<>>,
              pending |-> {}, bump0 |-> 0, bump1 |-> 0]

CoalIdle == [phase |-> "idle", addr |-> 0, end |-> 0, m |-> 0, n |-> 0,
             lower_first |-> FALSE, lone |-> FALSE, ret |-> 0]

GcIdle == [ops |-> 0, root |-> 0, words |-> << >>, only_falloc |-> TRUE,
           again |-> FALSE, collected |-> FALSE, fgarbage |-> {}, dgarbage |-> {}]

EmIdle == [calls |-> << >>, ops |-> 0, returned |-> FALSE, sp |-> 0, fp |-> 0,
           retried |-> FALSE, freed |-> {}, ptr |-> 0, ty |-> 0, stores |-> {}]

CuIdle == [pass |-> "none"]

\* the three memories after their init functions, and no client yet
Runtime ==
    /\ fmem = alloc_init
    /\ trapped = FALSE
    /\ ftypes = <<>>
    /\ flive = {}
    /\ fops = 0
    /\ reuse = ReuseIdle
    /\ dmem = dinit
    /\ dlive = << >>
    /\ dops = 0
    /\ coal = CoalIdle
    /\ smem = shadow_init
    /\ frames = << >>
    /\ marked = [scanned |-> FALSE, calls |-> << >>]
    /\ sops = 0
    /\ gcs = GcIdle
    /\ em = EmIdle

Init == Runtime /\ cu = CuIdle

(***************************************************************************)
(* Specification SpecFixed: a client of the fixed heap that registers its  *)
(* types and then calls falloc, ffree and sweep in any order.  MarkRecord  *)
(* is the write of mark_pointer into a record's header, the only way a     *)
(* block's mark word becomes 1.                                            *)
(***************************************************************************)
Register(shape) ==
    /\ ~trapped /\ fops = 0 /\ Len(ftypes) < MaxTypes
    /\ LET r == register(fmem, shape[1], shape[2], shape[3])
       IN /\ fmem' = r.m
          /\ trapped' = ~r.ok
    /\ ftypes' = Append(ftypes, shape)
    /\ UNCHANGED <<flive, fops, reuse, NotFixed>>

Falloc(id) ==
    /\ ~trapped /\ fops < MaxFixedOps /\ Cardinality(flive) < MaxLive
    /\ id \in TypeIds
    /\ LET r == falloc(fmem, id)
       IN /\ fmem' = r.m
          /\ trapped' = ~r.ok
          /\ flive' = IF r.ok /\ r.ret # 0 THEN flive \cup {r.ret} ELSE flive
    /\ fops' = fops + 1
    /\ UNCHANGED <<ftypes, reuse, NotFixed>>

Ffree(p) ==
    /\ ~trapped /\ fops < MaxFixedOps
    /\ p \in flive
    /\ LET r == ffree(fmem, p)
       IN /\ fmem' = r.m
          /\ trapped' = ~r.ok
    /\ flive' = flive \ {p}
    /\ fops' = fops + 1
    /\ UNCHANGED <<ftypes, reuse, NotFixed>>

MarkRecord(p) ==
    /\ ~trapped /\ fops < MaxFixedOps
    /\ p \in flive
    /\ read_u32(fmem, p - 4) # 1
    /\ fmem' = write_u32(fmem, p - 4, 1)
    /\ fops' = fops + 1
    /\ UNCHANGED <<trapped, ftypes, flive, reuse, NotFixed>>

Sweep ==
    /\ ~trapped /\ fops < MaxFixedOps /\ fops > 0
    /\ LET r == sweep(fmem)
       IN /\ fmem' = r.m
          /\ trapped' = ~r.ok
    /\ flive' = {p \in flive : read_u32(fmem, p - 4) = 1}
    /\ fops' = fops + 1
    /\ UNCHANGED <<ftypes, reuse, NotFixed>>

NextFixed ==
    \/ \E shape \in FixedShapes : Register(shape)
    \/ \E id \in 0 .. (MaxTypes - 1) : Falloc(id)
    \/ \E p \in flive : Ffree(p)
    \/ \E p \in flive : MarkRecord(p)
    \/ Sweep

SpecFixed == Init /\ [][NextFixed]_vars

\* the head of the freelist of type t
FreelistHead(m, t) == read_u32(m, TypeRecord(t) + 4)

\* every block on the list that starts at block address a has header type id t
RECURSIVE FreelistTyped(_, _, _, _)
FreelistTyped(m, a, t, fuel) ==
    \/ a = 0
    \/ fuel = 0
    \/ /\ InF(a) /\ InF(a + HEADER_SIZE)
       /\ read_u32(m, a) = t
       /\ FreelistTyped(m, read_u32(m, a + HEADER_SIZE), t, fuel - 1)

\* C9: after init, the register calls and any sequence of falloc, ffree and
\* sweep, every block on the freelist of a registered type t has header
\* type id t
C9_FreelistHoldsOwnType ==
    ~trapped =>
        \A t \in TypeIds : FreelistTyped(fmem, FreelistHead(fmem, t), t, FixedMemUnits)

(***************************************************************************)
(* Specification SpecReuse: the slab reuse scenario.  After registration a *)
(* client may first take SLAB_BLOCKS - 1 records of some type and keep     *)
(* them (so that a batch runs over the end of a slab), then allocates N    *)
(* records of one type, frees all N in any order and allocates N again.    *)
(***************************************************************************)
\* k calls of falloc(id) whose results are kept
RECURSIVE FallocTimes(_, _, _)
FallocTimes(r, id, k) ==
    IF ~r.ok \/ k = 0 THEN r
    ELSE FallocTimes(falloc(r.m, id), id, k - 1)

Prefill(id) ==
    /\ ~trapped /\ reuse.phase = "idle" /\ fops = 0
    /\ id \in TypeIds
    /\ LET r == FallocTimes(Res(fmem, TRUE, 0), id, SLAB_BLOCKS - 1)
       IN /\ fmem' = r.m
          /\ trapped' = ~r.ok
    /\ fops' = SLAB_BLOCKS - 1
    /\ UNCHANGED <<ftypes, flive, reuse, NotFixed>>

StartBatch(id, n) ==
    /\ ~trapped /\ reuse.phase = "idle"
    /\ id \in TypeIds
    /\ reuse' = [reuse EXCEPT !.phase = "first", !.ty = id, !.n = n,
                              !.bump0 = read_u32(fmem, BUMP_PTR_ADDR)]
    /\ UNCHANGED <<fmem, trapped, ftypes, flive, fops, NotFixed>>

FirstBatch ==
    /\ ~trapped /\ reuse.phase = "first"
    /\ LET r == falloc(fmem, reuse.ty)
           first == Append(reuse.first, r.ret)
       IN /\ fmem' = r.m
          /\ trapped' = ~r.ok
          /\ reuse' = IF Len(first) < reuse.n
                      THEN [reuse EXCEPT !.first = first]
                      ELSE [reuse EXCEPT !.first = first, !.phase = "free",
                                         !.pending = 1 .. reuse.n,
                                         !.bump1 = read_u32(r.m, BUMP_PTR_ADDR)]
    /\ UNCHANGED <<ftypes, flive, fops, NotFixed>>

FreeBatch(i) ==
    /\ ~trapped /\ reuse.phase = "free"
    /\ i \in reuse.pending
    /\ LET r == ffree(fmem, reuse.first[i])
       IN /\ fmem' = r.m
          /\ trapped' = ~r.ok
    /\ reuse' = [reuse EXCEPT !.pending = reuse.pending \ {i},
                              !.phase = IF reuse.pending = {i} THEN "second" ELSE "free"]
    /\ UNCHANGED <<ftypes, flive, fops, NotFixed>>

SecondBatch ==
    /\ ~trapped /\ reuse.phase = "second"
    /\ LET r == falloc(fmem, reuse.ty)
           second == Append(reuse.second, r.ret)
       IN /\ fmem' = r.m
          /\ trapped' = ~r.ok
          /\ reuse' = [reuse EXCEPT !.second = second,
                                    !.phase = IF Len(second) < reuse.n
                                              THEN "second" ELSE "done"]
    /\ UNCHANGED <<ftypes, flive, fops, NotFixed>>

NextReuse ==
    \/ \E shape \in FixedShapes : reuse.phase = "idle" /\ Register(shape)
    \/ \E id \in 0 .. (MaxTypes - 1) : Prefill(id)
    \/ \E id \in 0 .. (MaxTypes - 1), n \in 1 .. MaxBatch : StartBatch(id, n)
    \/ FirstBatch
    \/ \E i \in 1 .. MaxBatch : FreeBatch(i)
    \/ SecondBatch

SpecReuse == Init /\ [][NextReuse]_vars

Range(q) == {q[i] : i \in DOMAIN q}

\* C10: after N falloc calls of a type, ffree of the N pointers and N more
\* falloc calls of the type, the bump pointer is what it was after the first
\* N calls and the second batch returns only pointers of the first batch
C10_SlabReuse ==
    (reuse.phase = "done" /\ ~trapped) =>
        /\ read_u32(fmem, BUMP_PTR_ADDR) = reuse.bump1
        /\ Range(reuse.second) \subseteq Range(reuse.first)

\* a batch of MaxBatch records that ran over the end of a slab was freed and
\* allocated again
C10_Witness ==
    /\ reuse.phase = "done" /\ ~trapped
    /\ reuse.n = MaxBatch
    /\ fops = SLAB_BLOCKS - 1
    /\ 0 \notin Range(reuse.first)
    /\ reuse.bump1 # reuse.bump0

(***************************************************************************)
(* Specification SpecVar: a client of the variable heap that calls dalloc, *)
(* dfree (of a pointer it holds) and sweep in any order.  MarkBlock is the *)
(* write of mark_pointer into a block's header, the only way a block's     *)
(* mark word becomes 1.  The emitter asks for type tag 1 (strings and      *)
(* lists), the number formatters for type tag 2.                           *)
(***************************************************************************)
VarTags == {1, 2}

Without(f, p) == [q \in (DOMAIN f) \ {p} |-> f[q]]

\* the number of free blocks met walking the heap from block address a
RECURSIVE FreeBlocks(_, _, _)
FreeBlocks(m, a, fuel) ==
    IF a >= memory_size \/ fuel = 0 THEN 0
    ELSE (IF read_u32(m, a) = 0 THEN 1 ELSE 0)
         + FreeBlocks(m, a + BLOCK_OVERHEAD + read_u32(m, a + 8), fuel - 1)

Dalloc(ty, length) ==
    /\ ~trapped /\ dops < MaxVarOps
    /\ LET r == dalloc(dmem, ty, length)
       IN /\ dmem' = r.m
          /\ trapped' = ~r.ok
          /\ dlive' = IF r.ok /\ r.ret # 0 THEN (r.ret :> length) @@ dlive ELSE dlive
          /\ coal' = IF coal.phase = "two" /\ length = coal.m + coal.n
                     THEN [coal EXCEPT !.phase = "done", !.ret = r.ret,
                                       !.lone = FreeBlocks(dmem, START, VarMemUnits) = 1]
                     ELSE CoalIdle
    /\ dops' = dops + 1
    /\ UNCHANGED NotVar

Dfree(p) ==
    /\ ~trapped /\ dops < MaxVarOps
    /\ p \in DOMAIN dlive
    /\ LET r == dfree(dmem, p)
           addr == p - USER_OFFSET
           end == addr + BLOCK_OVERHEAD + read_u32(dmem, addr + 8)
       IN /\ dmem' = r.m
          /\ trapped' = ~r.ok
          /\ coal' = IF coal.phase = "one" /\ (addr = coal.end \/ end = coal.addr)
                     THEN [coal EXCEPT !.phase = "two", !.n = dlive[p],
                                       !.lower_first = (addr = coal.end)]
                     ELSE [CoalIdle EXCEPT !.phase = "one", !.addr = addr, !.end = end,
                                           !.m = dlive[p]]
    /\ dlive' = Without(dlive, p)
    /\ dops' = dops + 1
    /\ UNCHANGED NotVar

MarkBlock(p) ==
    /\ ~trapped /\ dops < MaxVarOps
    /\ p \in DOMAIN dlive
    /\ read_u32(dmem, p - 12) # 1
    /\ dmem' = write_u32(dmem, p - 12, 1)
    /\ coal' = CoalIdle
    /\ dops' = dops + 1
    /\ UNCHANGED <<trapped, dlive, NotVar>>

DSweep ==
    /\ ~trapped /\ dops < MaxVarOps
    /\ LET r == dsweep(dmem)
       IN /\ dmem' = r.m
          /\ trapped' = ~r.ok
    /\ dlive' = [p \in {q \in DOMAIN dlive : read_u32(dmem, q - 12) = 1} |-> dlive[p]]
    /\ coal' = CoalIdle
    /\ dops' = dops + 1
    /\ UNCHANGED NotVar

NextVar ==
    \/ \E ty \in VarTags, length \in 0 .. MaxVarLen : Dalloc(ty, length)
    \/ \E p \in DOMAIN dlive : Dfree(p)
    \/ \E p \in DOMAIN dlive : MarkBlock(p)
    \/ DSweep

SpecVar == Init /\ [][NextVar]_vars

\* walking the heap from block address a, no free block is followed by a
\* free block
RECURSIVE NoAdjacentFree(_, _, _)
NoAdjacentFree(m, a, fuel) ==
    LET next == a + BLOCK_OVERHEAD + read_u32(m, a + 8)
    IN \/ a >= memory_size
       \/ fuel = 0
       \/ /\ next < memory_size => ~(read_u32(m, a) = 0 /\ read_u32(m, next) = 0)
          /\ NoAdjacentFree(m, next, fuel - 1)

\* C7: after dinit and any sequence of dalloc, dfree of a pointer currently
\* allocated and sweep, no two physically adjacent blocks of the variable
\* heap are both free
C7_NoAdjacentFreeBlocks ==
    ~trapped => NoAdjacentFree(dmem, START, VarMemUnits)

\* two adjacent blocks were just freed, one after the other, next to a block
\* that is still allocated
C7_Witness ==
    /\ ~trapped
    /\ coal.phase = "two"
    /\ DOMAIN dlive # {}
    /\ FreeBlocks(dmem, START, VarMemUnits) = 1

\* C8: when two physically adjacent allocated blocks of lengths m and n are
\* freed one after the other, in either order, the dalloc(ty, m + n) that
\* follows returns a non-zero pointer
C8_CoalescedBlockFits ==
    (coal.phase = "done" /\ ~trapped) => coal.ret # 0

\* the upper block was freed first, nothing else was free, and the lengths
\* are at least 1
C8_Witness ==
    /\ ~trapped
    /\ coal.phase = "done"
    /\ coal.lone /\ ~coal.lower_first
    /\ coal.m >= 1 /\ coal.n >= 1

(***************************************************************************)
(* Specification SpecShadow: a client of the shadow stack that pushes and  *)
(* pops frames, sets slots of the newest frame and calls mark.             *)
(***************************************************************************)
\* the values a slot is set to: the null pointer and a pointer
ShadowValues == {0, 40}
ShadowTags == {1, 2}

Unscanned == [scanned |-> FALSE, calls |-> << >>]

Push(size) ==
    /\ ~trapped /\ sops < MaxShadowOps /\ Len(frames) < MaxFrames
    /\ LET r == push(smem, size)
       IN /\ smem' = r.m
          /\ trapped' = ~r.ok
    /\ frames' = Append(frames, [base |-> read_u32(smem, STACK_POINTER_ADDR), size |-> size])
    /\ marked' = Unscanned
    /\ sops' = sops + 1
    /\ UNCHANGED NotShadow

Pop ==
    /\ ~trapped /\ sops < MaxShadowOps /\ Len(frames) > 0
    /\ LET r == pop(smem)
       IN /\ smem' = r.m
          /\ trapped' = ~r.ok
    /\ frames' = SubSeq(frames, 1, Len(frames) - 1)
    /\ marked' = Unscanned
    /\ sops' = sops + 1
    /\ UNCHANGED NotShadow

Set(value, index, ty) ==
    /\ ~trapped /\ sops < MaxShadowOps /\ Len(frames) > 0
    /\ index < frames[Len(frames)].size
    /\ LET r == set(smem, value, index, ty)
       IN /\ smem' = r.m
          /\ trapped' = ~r.ok
    /\ marked' = Unscanned
    /\ sops' = sops + 1
    /\ UNCHANGED <<frames, NotShadow>>

Mark ==
    /\ ~trapped /\ sops < MaxShadowOps
    /\ trapped' = ScanTraps(smem)
    /\ marked' = [scanned |-> TRUE, calls |-> MarkCalls(smem)]
    /\ sops' = sops + 1
    /\ UNCHANGED <<smem, frames, NotShadow>>

NextShadow ==
    \/ \E size \in 1 .. MaxSlots : Push(size)
    \/ Pop
    \/ \E value \in ShadowValues, index \in 0 .. (MaxSlots - 1), ty \in ShadowTags :
           Set(value, index, ty)
    \/ Mark

SpecShadow == Init /\ [][NextShadow]_vars

\* the slots of frame k from slot i on, as <<address, tag, value>>
RECURSIVE FrameSlots(_, _, _)
FrameSlots(s, f, i) ==
    IF i >= f.size THEN << >>
    ELSE LET a == f.base + (i * SLOT_SIZE)
         IN << <<a, read_u32(s, a), read_u32(s, a + 4)>> >> \o FrameSlots(s, f, i + 1)

\* the slots of the frames k .. Len(fs), oldest first
RECURSIVE LiveSlots(_, _, _)
LiveSlots(s, fs, k) ==
    IF k > Len(fs) THEN << >>
    ELSE FrameSlots(s, fs[k], 0) \o LiveSlots(s, fs, k + 1)

\* the slots with tag 1 or 2 of every live frame
Roots(s, fs) == SelectSeq(LiveSlots(s, fs, 1), LAMBDA c : c[2] \in {1, 2})

\* C3: mark() calls mark_pointer(value, tag) for every slot with tag 1 or 2
\* of every frame on the shadow stack, and for no other pair of words
C3_MarkVisitsExactlyTheSlots ==
    (marked.scanned /\ ~trapped) => marked.calls = Roots(smem, frames)

(***************************************************************************)
(* Specification SpecGC: a client of the collector.  It registers its      *)
(* record types, pushes one frame, and then creates records and lists,     *)
(* stores their pointers in slots of the frame and in fields of records,   *)
(* and calls gc().  flive and dlive are the pointers the client holds; a   *)
(* gc() makes it forget those that no slot reaches.                        *)
(***************************************************************************)
\* the words of the record at pointer p, whose type has size bytes
FieldWords(m, p, size) == [i \in 1 .. (size \div 4) |-> read_u32(m, p + ((i - 1) * 4))]

\* the <<size, struct_count, list_count>> registered for the type in the
\* header of record p
ShapeOf(m, p) ==
    LET t == read_u32(m, p - HEADER_SIZE)
    IN IF t \in TypeIds THEN ftypes[t + 1] ELSE <<0, 0, 0>>

SizeOf(m, p) == ShapeOf(m, p)[1]

\* the record shapes of the client: one pointer field; a pointer field and a
\* list field
GcShapes == {<<8, 1, 0>>, <<16, 1, 1>>}

\* the stores of a `new` whose fields are all null or zero
RECURSIVE ZeroFields(_, _, _)
ZeroFields(m, p, size) ==
    IF size <= 0 THEN m
    ELSE ZeroFields(write_u32(write_u32(m, p + size - 8, 0), p + size - 4, 0), p, size - 8)

\* the pointers held by the fields of record p that its type declares as
\* pointers, as <<heap, pointer>>
Children(m, p) ==
    LET shape == ShapeOf(m, p)
    IN {<<1, read_u32(m, p + (i * 8))>> : i \in 0 .. (shape[2] - 1)}
       \cup {<<2, read_u32(m, p + ((shape[2] + i) * 8))>> : i \in 0 .. (shape[3] - 1)}

\* the records and lists the client holds that the nodes in seen lead to
RECURSIVE Reach(_, _)
Reach(seen, todo) ==
    IF todo = {} THEN seen
    ELSE LET n == CHOOSE x \in todo : TRUE
             next == IF n[1] = 1 /\ n[2] \in flive THEN Children(fmem, n[2]) ELSE {}
             held == {c \in next : (c[1] = 1 /\ c[2] \in flive)
                                   \/ (c[1] = 2 /\ c[2] \in DOMAIN dlive)}
         IN Reach(seen \cup {n}, (todo \cup held) \ (seen \cup {n}))

\* what the slots with tag 1 or 2 of the live frames reach
Reachable ==
    LET roots == Roots(smem, frames)
    IN Reach({}, {<<roots[k][2], roots[k][3]>> : k \in DOMAIN roots})

GcStep(g) == [g EXCEPT !.ops = gcs.ops + 1, !.collected = FALSE]

Dropped(r) ==
    /\ fmem' = r.m
    /\ trapped' = ~r.ok
    /\ gcs' = GcStep([gcs EXCEPT !.again = gcs.again \/ (r.ok /\ r.ret = gcs.root)])

GcPush(size) ==
    /\ ~trapped /\ gcs.ops < MaxGcOps /\ frames = << >>
    /\ LET r == push(smem, size)
       IN /\ smem' = r.m
          /\ trapped' = ~r.ok
    /\ frames' = <<[base |-> read_u32(smem, STACK_POINTER_ADDR), size |-> size]>>
    /\ gcs' = GcStep(gcs)
    /\ UNCHANGED <<fixedVars, varVars, marked, sops, em, cu>>

\* falloc(id) whose result the client drops
Drop(id) ==
    /\ ~trapped /\ gcs.ops < MaxGcOps /\ frames # << >>
    /\ id \in TypeIds
    /\ Dropped(falloc(fmem, id))
    /\ UNCHANGED <<ftypes, flive, fops, reuse, varVars, shadowVars, em, cu>>

\* `new` of a record of type id whose first pointer field is q and whose
\* other fields are null or zero
New(id, q) ==
    /\ ~trapped /\ gcs.ops < MaxGcOps /\ frames # << >>
    /\ id \in TypeIds
    /\ q \in flive \cup {0}
    /\ LET r == falloc(fmem, id)
           zeroed == ZeroFields(r.m, r.ret, ftypes[id + 1][1])
       IN /\ r.ok /\ r.ret # 0
          /\ Cardinality(flive \cup {r.ret}) <= MaxLive
          /\ fmem' = IF ftypes[id + 1][2] > 0 THEN write_u32(zeroed, r.ret, q) ELSE zeroed
          /\ flive' = flive \cup {r.ret}
          /\ gcs' = GcStep([gcs EXCEPT !.again = gcs.again \/ r.ret = gcs.root,
                                       !.only_falloc = FALSE])
    /\ UNCHANGED <<trapped, ftypes, fops, reuse, varVars, shadowVars, em, cu>>

NewList(length) ==
    /\ ~trapped /\ gcs.ops < MaxGcOps /\ frames # << >>
    /\ DOMAIN dlive = {}
    /\ LET r == dalloc(dmem, 1, length)
       IN /\ r.ok /\ r.ret # 0
          /\ dmem' = write_u32(write_u32(r.m, r.ret, 0), r.ret + 4, 0)
          /\ dlive' = (r.ret :> length) @@ dlive
    /\ gcs' = GcStep([gcs EXCEPT !.only_falloc = FALSE])
    /\ UNCHANGED <<trapped, fixedVars, dops, coal, shadowVars, em, cu>>

\* a pointer the client holds is stored in a slot of the frame
Root(p, index, ty) ==
    /\ ~trapped /\ gcs.ops < MaxGcOps /\ frames # << >>
    /\ index < frames[1].size
    /\ (ty = 1 /\ p \in flive) \/ (ty = 2 /\ p \in DOMAIN dlive)
    /\ LET r == set(smem, p, index, ty)
       IN /\ smem' = r.m
          /\ trapped' = ~r.ok
    /\ gcs' = GcStep(IF ty = 1
                     THEN [gcs EXCEPT !.root = p, !.again = FALSE, !.only_falloc = TRUE,
                                      !.words = FieldWords(fmem, p, SizeOf(fmem, p))]
                     ELSE [gcs EXCEPT !.only_falloc = FALSE])
    /\ UNCHANGED <<fixedVars, varVars, frames, marked, sops, em, cu>>

\* a pointer the client holds is stored in pointer field i of a record
StoreField(p, i, q) ==
    /\ ~trapped /\ gcs.ops < MaxGcOps
    /\ p \in flive
    /\ LET shape == ShapeOf(fmem, p)
       IN \/ i < shape[2] /\ q \in flive
          \/ i >= shape[2] /\ i < shape[2] + shape[3] /\ q \in DOMAIN dlive
    /\ fmem' = write_u32(write_u32(fmem, p + (i * 8), q), p + (i * 8) + 4, 0)
    /\ gcs' = GcStep([gcs EXCEPT !.only_falloc = FALSE])
    /\ UNCHANGED <<trapped, ftypes, flive, fops, reuse, varVars, shadowVars, em, cu>>

Collected(g, fkept, dkept) ==
    /\ fmem' = g.f
    /\ dmem' = g.d
    /\ trapped' = ~g.ok
    /\ flive' = fkept
    /\ dlive' = [p \in dkept |-> dlive[p]]
    /\ gcs' = [gcs EXCEPT !.ops = gcs.ops + 1, !.collected = TRUE,
                          !.fgarbage = flive \ fkept,
                          !.dgarbage = (DOMAIN dlive) \ dkept]

Kept(kept) ==
    Collected(gc(Heaps(fmem, dmem, TRUE), smem),
              {p \in flive : <<1, p>> \in kept},
              {p \in DOMAIN dlive : <<2, p>> \in kept})

Gc ==
    /\ ~trapped /\ gcs.ops < MaxGcOps /\ frames # << >>
    /\ Kept(Reachable)
    /\ UNCHANGED <<ftypes, fops, reuse, dops, coal, shadowVars, em, cu>>

NextGC ==
    \/ \E shape \in GcShapes : frames = << >> /\ Register(shape)
    \/ \E size \in 1 .. MaxSlots : GcPush(size)
    \/ \E id \in 0 .. (MaxTypes - 1) : Drop(id)
    \/ \E id \in 0 .. (MaxTypes - 1), q \in flive \cup {0} : New(id, q)
    \/ NewList(1)
    \/ \E p \in flive \cup DOMAIN dlive, index \in 0 .. (MaxSlots - 1), ty \in {1, 2} :
           Root(p, index, ty)
    \/ \E p \in flive, i \in 0 .. 1, q \in flive \cup DOMAIN dlive : StoreField(p, i, q)
    \/ Gc

SpecGC == Init /\ [][NextGC]_vars

\* block address b is on the list that starts at block address a
RECURSIVE OnFreelist(_, _, _, _)
OnFreelist(m, a, b, fuel) ==
    /\ a # 0
    /\ fuel > 0
    /\ InF(a) /\ InF(a + HEADER_SIZE)
    /\ (a = b \/ OnFreelist(m, read_u32(m, a + HEADER_SIZE), b, fuel - 1))

\* the frame holds the record gcs.root in a slot with tag 1 and nothing else
RootedAlone ==
    /\ gcs.root # 0
    /\ Len(frames) = 1
    /\ Len(Roots(smem, frames)) = 1
    /\ Roots(smem, frames)[1][2] = 1
    /\ Roots(smem, frames)[1][3] = gcs.root

\* C4: with one frame live and one record held in a slot with tag 1 of it,
\* after any sequence of falloc calls whose results are dropped and gc()
\* calls the record is on no freelist, falloc has not returned it again and
\* its field words are unchanged
C4_RootedRecordSurvives ==
    (RootedAlone /\ gcs.only_falloc /\ ~trapped) =>
        /\ ~gcs.again
        /\ \A t \in TypeIds :
               ~OnFreelist(fmem, FreelistHead(fmem, t), gcs.root - HEADER_SIZE, FixedMemUnits)
        /\ FieldWords(fmem, gcs.root, 4 * Len(gcs.words)) = gcs.words

\* the record at p is free: its block is on the freelist of some type
FixedFree(m, p) ==
    \E t \in TypeIds : OnFreelist(m, FreelistHead(m, t), p - HEADER_SIZE, FixedMemUnits)

\* the list at p is free: the type tag of its block is 0
VarFree(m, p) == read_u32(m, p - USER_OFFSET) = 0

\* C5: gc() returns, and when it has returned every record and list that no
\* slot with tag 1 or 2 reached is free and every block of both heaps has
\* mark 0
C5_GarbageFreedMarksCleared ==
    (gcs.collected /\ ~trapped) =>
        /\ \A p \in gcs.fgarbage : FixedFree(fmem, p)
        /\ \A p \in gcs.dgarbage : VarFree(dmem, p)
        /\ \A p \in flive \cup gcs.fgarbage : read_u32(fmem, p - 4) = 0
        /\ \A p \in (DOMAIN dlive) \cup gcs.dgarbage : read_u32(dmem, p - 12) = 0

(***************************************************************************)
(* The code the compiler emits, backend/codegen, by what it does when it   *)
(* runs.  A world is the three memories of the running program; ok is      *)
(* FALSE after a trap.                                                     *)
(***************************************************************************)
MaxEmitOps == 5
MaxCalls == 2
MaxStrLen == 2
MaxStructs == 12

World(f, d, s, ok) == [f |-> f, d |-> d, s |-> s, ok |-> ok]

\* a world and the i32 an operation left on the operand stack
Att(f, d, s, ok, ret) == [f |-> f, d |-> d, s |-> s, ok |-> ok, ret |-> ret]

InWorldF(w, r) == Att(r.m, w.d, w.s, w.ok /\ r.ok, r.ret)

InWorldD(w, r) == Att(w.f, r.m, w.s, w.ok /\ r.ok, r.ret)

\* the loops of dconcat: n elements of 8 bytes copied from from to to
RECURSIVE CopyElems(_, _, _, _)
CopyElems(r, from, to, n) ==
    IF ~r.ok \/ n <= 0 THEN r
    ELSE IF ~(InD(from) /\ InD(from + 4) /\ InD(to) /\ InD(to + 4)) THEN Res(r.m, FALSE, r.ret)
    ELSE CopyElems(Res(write_u32(write_u32(r.m, to, read_u32(r.m, from)),
                                 to + 4, read_u32(r.m, from + 4)), TRUE, r.ret),
                   from + 8, to + 8, n - 1)

CopyInto(r, from, at, n) ==
    IF ~r.ok \/ r.ret = 0 THEN r
    ELSE CopyElems(r, from, r.ret + (at * 8), n)

dconcat(m, first, second) ==
    IF ~(InD(first - 16) /\ InD(first - 4) /\ InD(second - 4)) THEN Res(m, FALSE, 0)
    ELSE CopyInto(CopyInto(dalloc(m, read_u32(m, first - 16),
                                  read_u32(m, first - 4) + read_u32(m, second - 4)),
                           first, 0, read_u32(m, first - 4)),
                  second, read_u32(m, first - 4), read_u32(m, second - 4))

\* the stores of a "prepare" closure: i32.store at offset 4, and at offset 8,
\* of address 0 of the shadow memory
Park4(w, a) == World(w.f, w.d, write_u32(w.s, 4, a), w.ok)

Park(w, a, b) == World(w.f, w.d, write_u32(write_u32(w.s, 4, a), 8, b), w.ok)

\* "retrieve" and "operation": the arguments are loaded from offsets 4 and 8
\* of the shadow memory and the allocator is called
Operate(w, kind) ==
    IF kind = "falloc" THEN InWorldF(w, falloc(w.f, read_u32(w.s, 4)))
    ELSE IF kind = "dalloc"
    THEN InWorldD(w, dalloc(w.d, read_u32(w.s, 4), read_u32(w.s, 8)))
    ELSE InWorldD(w, dconcat(w.d, read_u32(w.s, 4), read_u32(w.s, 8)))

\* Call(GC) of the retry path
AfterGc(w, g) == World(g.f, g.d, w.s, w.ok /\ g.ok)

Collect(w) == AfterGc(w, gc(Heaps(w.f, w.d, TRUE), w.s))

\* what an allocation site leaves: the world, the pointer in local 0,
\* whether the retry path ran and which of the objects in use its collection
\* freed.  An object is <<1, pointer>> in the fixed heap, <<2, pointer>> in
\* the variable heap.  The code that follows the site adds the i64 stores it
\* made into the fixed heap: their addresses, the record pointer they are
\* relative to and the struct type of that record.
Site(a, retried, freed) ==
    [f |-> a.f, d |-> a.d, s |-> a.s, ok |-> a.ok, ret |-> a.ret,
     retried |-> retried, freed |-> freed, ptr |-> 0, ty |-> 0, stores |-> {}]

FreedBy(w, used) ==
    {n \in used : IF n[1] = 1 THEN FixedFree(w.f, n[2]) ELSE VarFree(w.d, n[2])}

Retry(w, kind, used) ==
    IF ~w.ok THEN Site(Att(w.f, w.d, w.s, FALSE, 0), TRUE, {})
    ELSE Site(Operate(w, kind), TRUE, FreedBy(w, used))

FirstTry(a, kind, used) ==
    IF ~a.ok \/ a.ret # 0 THEN Site(a, FALSE, {})
    ELSE Retry(Collect(a), kind, used)

\* emit_gc_retry after its prepare closure
emit_gc_retry(w, kind, used) == FirstTry(Operate(w, kind), kind, used)

\* the byte a string literal is made of
StrByte == 97

\* a string literal: `len` bytes stored in the block the site returned
RECURSIVE StoreBytes(_, _, _)
StoreBytes(x, i, len) ==
    IF ~x.ok \/ i >= len THEN x
    ELSE IF ~InD(x.ret + (i * 8)) THEN [x EXCEPT !.ok = FALSE]
    ELSE StoreBytes([x EXCEPT !.d = write_u32(x.d, x.ret + (i * 8), StrByte)], i + 1, len)

StrLit(w, len, used) == StoreBytes(emit_gc_retry(Park(w, 1, len), "dalloc", used), 0, len)

\* `new`: the i64.store of every field initialiser into the record the site
\* returned
RECURSIVE StoreFields(_, _, _)
StoreFields(x, vals, k) ==
    IF ~x.ok \/ k > Len(vals) THEN x
    ELSE IF ~(InF(x.ret + (8 * (k - 1))) /\ InF(x.ret + (8 * (k - 1)) + 4))
    THEN [x EXCEPT !.ok = FALSE]
    ELSE StoreFields([x EXCEPT !.f = write_u32(write_u32(x.f, x.ret + (8 * (k - 1)), vals[k]),
                                               x.ret + (8 * (k - 1)) + 4, 0),
                               !.stores = @ \cup {x.ret + (8 * (k - 1))}],
                     vals, k + 1)

\* local.tee 0 after the site: the stores are relative to the pointer the
\* site left, whatever it is
Storing(x, id) == [x EXCEPT !.ptr = x.ret, !.ty = id]

NewRec(w, id, vals, used) ==
    StoreFields(Storing(emit_gc_retry(Park4(w, id), "falloc", used), id), vals, 1)

\* object.field = value, the field at byte `offset` of a record of type id:
\* the address object + offset is computed (FieldReference) and the value is
\* stored there with i64.store
FieldStore(x, value) ==
    IF ~(InF(x.ret) /\ InF(x.ret + 4)) THEN [x EXCEPT !.ok = FALSE]
    ELSE [x EXCEPT !.f = write_u32(write_u32(x.f, x.ret, value), x.ret + 4, 0),
                   !.stores = {x.ret}]

FieldIs(w, object, offset, value, id) ==
    FieldStore([Site(Att(w.f, w.d, w.s, w.ok, object + offset), FALSE, {})
                    EXCEPT !.ptr = object, !.ty = id], value)

\* left + right of two strings
Concat(w, left, right, used) == emit_gc_retry(Park(w, left, right), "dconcat", used)

\* IRStmt::LocalSet after its value: local.tee; shadow set by the kind of the
\* value's type, or drop
Rooted(x, r) == [x EXCEPT !.s = r.m, !.ok = x.ok /\ r.ok]

LocalSet(x, index, kind) ==
    IF ~x.ok THEN x
    ELSE IF kind = "struct" THEN Rooted(x, set(x.s, x.ret, index - 2, 1))
    ELSE IF kind = "string" THEN Rooted(x, set(x.s, x.ret, index - 2, 2))
    ELSE x

\* the prologue of compile_function: push(frame_size); set(local 2, 0, 1);
\* set(param, 1 + i, tag) for the struct, list and string parameters
SetCaptures(r) == IF ~r.ok THEN r ELSE set(r.m, 0, 0, 1)

RECURSIVE RootParams(_, _, _, _)
RootParams(r, sig, args, i) ==
    IF ~r.ok \/ i > sig.np THEN r
    ELSE RootParams(IF sig.kinds[i] = "struct" THEN set(r.m, args[i], i, 1)
                    ELSE IF sig.kinds[i] = "string" THEN set(r.m, args[i], i, 2)
                    ELSE r,
                    sig, args, i + 1)

Prologue(s, sig, args) == RootParams(SetCaptures(push(s, 1 + Len(sig.kinds))), sig, args, 1)

\* the registrations the prologue of main makes
RECURSIVE RegisterAll(_, _, _)
RegisterAll(m, shapes, k) ==
    IF k > Len(shapes) THEN m
    ELSE RegisterAll(register(m, shapes[k][1], shapes[k][2], shapes[k][3]).m, shapes, k + 1)

(***************************************************************************)
(* Specification SpecEmit: a compiled program runs.  main registers the    *)
(* record types and pushes its frame; statements assign a string literal,  *)
(* a new record, a boxed nullable integer or the concatenation of two      *)
(* string locals to a local; a function is called with a string argument   *)
(* and returns.  em.calls holds, for every call in progress, the stack     *)
(* and frame pointer before the call, the base of its frame and the        *)
(* values of its parameters and locals.                                    *)
(***************************************************************************)
\* parameters and locals of main and of the function it calls, by the kind
\* of their type; local k of the list is local index k + 2 and slot k
EmitSigs == << [np |-> 0, kinds |-> <<"string", "string", "boxed">>],
               [np |-> 1, kinds |-> <<"string", "struct">>] >>

\* the struct table of the program: the tagged record (tag, value) that
\* boxes a nullable value, which wrap_program puts at index 0, and the
\* MaxStructs structs of the program, each of one integer field
EmitShapes == [id \in 1 .. MaxStructs + 1 |-> IF id = 1 THEN <<16, 0, 0>> ELSE <<8, 0, 0>>]

\* the struct the program makes records of: the one it declares last
StructType == MaxStructs

BoxType == 0

Now == World(fmem, dmem, smem, TRUE)

Top == em.calls[Len(em.calls)]

Kind(k) == EmitSigs[Top.sig].kinds[k]

Running == ~trapped /\ em.ops < MaxEmitOps /\ em.calls # << >>

EmitIdle == <<flive, fops, reuse, dlive, dops, coal, frames, marked, sops, gcs, cu>>

Commit(x, calls) ==
    /\ fmem' = x.f
    /\ dmem' = x.d
    /\ smem' = x.s
    /\ trapped' = ~x.ok
    /\ em' = [em EXCEPT !.calls = calls, !.ops = em.ops + 1, !.returned = FALSE,
                        !.retried = x.retried, !.freed = x.freed,
                        !.ptr = x.ptr, !.ty = x.ty, !.stores = x.stores]
    /\ UNCHANGED <<ftypes, EmitIdle>>

Assign(x, k) == Commit(x, [em.calls EXCEPT ![Len(em.calls)].vals[k] = x.ret])

\* local k = "a string of len bytes"
EmStr(k, len) ==
    /\ Running
    /\ k \in 1 .. Len(Top.vals) /\ Kind(k) = "string"
    /\ Assign(LocalSet(StrLit(Now, len, {}), k + 2, "string"), k)

\* local k = new T { 0 }
EmNew(k) ==
    /\ Running
    /\ k \in 1 .. Len(Top.vals) /\ Kind(k) = "struct"
    /\ Assign(LocalSet(NewRec(Now, StructType, <<0>>, {}), k + 2, "struct"), k)

\* local k = 0, where the local is a nullable integer: the value is wrapped
\* into a new box with tag 2
EmBox(k) ==
    /\ Running
    /\ k \in 1 .. Len(Top.vals) /\ Kind(k) = "boxed"
    /\ Assign(LocalSet(NewRec(Now, BoxType, <<2, 0>>, {}), k + 2, "boxed"), k)

\* local k.field = 1, where local k holds a record of the struct
EmSetField(k) ==
    /\ Running
    /\ k \in 1 .. Len(Top.vals) /\ Kind(k) = "struct" /\ Top.vals[k] # 0
    /\ Commit(FieldIs(Now, Top.vals[k], 0, 1, StructType), em.calls)

\* local k = local i + local j, all strings
EmConcat(k, i, j) ==
    /\ Running
    /\ {k, i, j} \subseteq 1 .. Len(Top.vals)
    /\ Kind(k) = "string" /\ Kind(i) = "string" /\ Kind(j) = "string"
    /\ Top.vals[i] # 0 /\ Top.vals[j] # 0
    /\ Assign(LocalSet(Concat(Now, Top.vals[i], Top.vals[j],
                              {<<2, Top.vals[i]>>, <<2, Top.vals[j]>>}),
                       k + 2, "string"), k)

Entered(r, g, args) ==
    /\ smem' = r.m
    /\ trapped' = ~r.ok
    /\ em' = [em EXCEPT !.calls = Append(em.calls,
                                         [sp |-> read_u32(smem, STACK_POINTER_ADDR),
                                          fp |-> read_u32(smem, FRAME_POINTER_ADDR),
                                          base |-> read_u32(smem, STACK_POINTER_ADDR),
                                          sig |-> g,
                                          vals |-> [k \in 1 .. Len(EmitSigs[g].kinds) |->
                                                       IF k <= Len(args) THEN args[k] ELSE 0]]),
                        !.ops = em.ops + 1, !.returned = FALSE,
                        !.retried = FALSE, !.freed = {},
                        !.ptr = 0, !.ty = 0, !.stores = {}]

\* the host calls main
EmMain ==
    /\ ~trapped /\ em.ops = 0 /\ em.calls = << >>
    /\ fmem' = RegisterAll(fmem, EmitShapes, 1)
    /\ ftypes' = EmitShapes
    /\ Entered(Prologue(smem, EmitSigs[1], << >>), 1, << >>)
    /\ UNCHANGED <<dmem, EmitIdle>>

\* the running function calls the function of one string parameter
EmCall(a) ==
    /\ Running /\ Len(em.calls) < MaxCalls
    /\ \E i \in 1 .. Len(Top.vals) : Kind(i) = "string" /\ a = Top.vals[i]
    /\ Entered(Prologue(smem, EmitSigs[2], <<a>>), 2, <<a>>)
    /\ UNCHANGED <<fmem, dmem, ftypes, EmitIdle>>

Left(r) ==
    /\ smem' = r.m
    /\ trapped' = ~r.ok
    /\ em' = [em EXCEPT !.calls = SubSeq(em.calls, 1, Len(em.calls) - 1),
                        !.ops = em.ops + 1, !.returned = TRUE,
                        !.sp = Top.sp, !.fp = Top.fp,
                        !.retried = FALSE, !.freed = {},
                        !.ptr = 0, !.ty = 0, !.stores = {}]

\* return, raise or the end of the body: pop, then return
EmReturn ==
    /\ Running
    /\ Left(pop(smem))
    /\ UNCHANGED <<fmem, dmem, ftypes, EmitIdle>>

NextEmit ==
    \/ EmMain
    \/ \E k \in 1 .. 3, len \in 1 .. MaxStrLen : EmStr(k, len)
    \/ \E k \in 1 .. 3 : EmNew(k)
    \/ \E k \in 1 .. 3 : EmBox(k)
    \/ \E k \in 1 .. 3 : EmSetField(k)
    \/ \E k \in 1 .. 3, i \in 1 .. 3, j \in 1 .. 3 : EmConcat(k, i, j)
    \/ \E a \in 0 .. memory_size : EmCall(a)
    \/ EmReturn

SpecEmit == Init /\ [][NextEmit]_vars

\* C6: after any call returns without a trap, the stack pointer and the
\* frame pointer of the shadow stack are what they were before the call
C6_FrameBalance ==
    (em.returned /\ ~trapped) =>
        /\ read_u32(smem, STACK_POINTER_ADDR) = em.sp
        /\ read_u32(smem, FRAME_POINTER_ADDR) = em.fp

\* C1: no object still in use is freed by the collection of a retry path
C1_RetryFreesNothingInUse ==
    (em.retried /\ ~trapped) => em.freed = {}

\* the tag of the slot of a local that holds a pointer
TagOf(kind) == IF kind = "string" THEN 2 ELSE 1

\* C2: after the prologue and after every assignment to a local, the slot
\* (local index - 2) of every parameter or local that holds a heap pointer
\* holds that pointer, with tag 1 for the fixed heap and 2 for the variable
\* heap
C2_PointerLocalsAreRooted ==
    ~trapped =>
        \A c \in 1 .. Len(em.calls) :
            \A k \in 1 .. Len(em.calls[c].vals) :
                em.calls[c].vals[k] # 0 =>
                    /\ read_u32(smem, em.calls[c].base + (k * SLOT_SIZE))
                           = TagOf(EmitSigs[em.calls[c].sig].kinds[k])
                    /\ read_u32(smem, em.calls[c].base + (k * SLOT_SIZE) + 4)
                           = em.calls[c].vals[k]

\* C11: for every allocated block of the variable heap, the word at
\* user_ptr - 4 reads the element count that was asked of dalloc
C11_LengthIsRequested ==
    ~trapped => \A p \in DOMAIN dlive : read_u32(dmem, p - 4) = dlive[p]

\* the user region of the record at pointer p of type id: the bytes from p
\* up to p + size of the type, p being a block above the type table whose
\* header names the type
UserRegion(m, p, id, a) ==
    /\ p >= TypeRecord(Len(EmitShapes)) + HEADER_SIZE
    /\ p + EmitShapes[id + 1][1] <= alloc_memory_size
    /\ read_u32(m, p - HEADER_SIZE) = id
    /\ p <= a /\ a + 8 <= p + EmitShapes[id + 1][1]

\* C12: every 8-byte store of a `new` field initialiser or of a field
\* assignment writes inside the user region of a block that falloc returned,
\* never into a block header, the type table or the words of the bump
\* pointer and the data start
C12_StoresInsideUserRegion ==
    ~trapped => \A a \in em.stores : UserRegion(fmem, em.ptr, em.ty, a)

\* the scratchpad the emitter parks operands in: the slice site stores its
\* `end` operand with i32.store at offset 12 of address 0, the last of the
\* parking offsets, so the scratchpad ends at byte 16
PARK_END_OFFSET == 12

ScratchpadTop == PARK_END_OFFSET + 4

\* C13: after init() the stack pointer and the frame pointer are the address
\* just above the scratchpad, and no slot of a frame that push made (the
\* slots set writes) overlaps the bytes of the scratchpad
C13_FramesAboveScratchpad ==
    ~trapped =>
        /\ sops = 0 => /\ read_u32(smem, STACK_POINTER_ADDR) = ScratchpadTop
                       /\ read_u32(smem, FRAME_POINTER_ADDR) = ScratchpadTop
        /\ \A k \in 1 .. Len(frames) : frames[k].base >= ScratchpadTop

(***************************************************************************)
(* The passes of the compiler.  A type is its kind and its two flags, as   *)
(* ast::Type; a field is its name and its type.                            *)
(***************************************************************************)
MaxFields == 2

Type(kind, nullable, errorable) == [kind |-> kind, nullable |-> nullable, errorable |-> errorable]

Plain(kind) == Type(kind, FALSE, FALSE)

\* segregate_fields: the fields whose kind is Struct or Function, then those
\* whose kind is List or String, then the others, each group in the order of
\* the declaration
IsStructPtr(fd) == fd.ty.kind \in {"Struct", "Function"}

IsListPtr(fd) == fd.ty.kind \in {"List", "String"}

IsPrimitive(fd) == ~IsStructPtr(fd) /\ ~IsListPtr(fd)

segregate_fields(fields) ==
    [fields |-> SelectSeq(fields, IsStructPtr) \o SelectSeq(fields, IsListPtr)
                    \o SelectSeq(fields, IsPrimitive),
     struct_count |-> Len(SelectSeq(fields, IsStructPtr)),
     list_count |-> Len(SelectSeq(fields, IsListPtr))]

\* the struct wrap_program puts in front of the struct table
tagged_union_struct ==
    [fields |-> << [name |-> "tag", ty |-> Plain("Integer")],
                   [name |-> "value", ty |-> Plain("Integer")] >>,
     struct_count |-> 0, list_count |-> 0]

\* the heap the run-time value of a type points into: 1 the fixed heap, 2 the
\* variable heap, 0 when the value is no pointer.  A nullable or errorable
\* value is the pointer to its tagged record (wrap_to_type makes it, and
\* type_to_valtype gives it an i32); a function value carries the pointer to
\* its capture record in its low word.
HeapOf(ty) ==
    IF ty.nullable \/ ty.errorable THEN 1
    ELSE IF ty.kind \in {"Struct", "Function"} THEN 1
    ELSE IF ty.kind \in {"List", "String"} THEN 2
    ELSE 0

(***************************************************************************)
(* Specification SpecLayout: a struct declaration, the captures of a       *)
(* nested function and the tagged record are given their layout and their  *)
(* two counts, which main registers.  cu.fields are the declared fields,   *)
(* cu.boxed the type of a value that is boxed; cu.reg is the layout made,  *)
(* cu.holds the heap each of its fields points into at run time.           *)
(***************************************************************************)
LayoutKinds == {"Integer", "String", "List", "Struct", "Function"}

LayoutTypes == {Type(k, n, e) : k \in LayoutKinds, n \in BOOLEAN, e \in BOOLEAN}

Declared(tys) == [i \in 1 .. Len(tys) |-> [name |-> i, ty |-> tys[i]]]

FieldLists == UNION {[1 .. n -> LayoutTypes] : n \in 0 .. MaxFields}

InitLayout ==
    /\ Runtime
    /\ \E tys \in FieldLists, k \in LayoutKinds :
           cu = [pass |-> "layout", fields |-> Declared(tys), boxed |-> Plain(k),
                 made |-> "nothing", reg |-> segregate_fields(<< >>), holds |-> << >>]

Registered(what, reg, holds) ==
    /\ cu.pass = "layout" /\ cu.made = "nothing"
    /\ cu' = [cu EXCEPT !.made = what, !.reg = reg, !.holds = holds]
    /\ UNCHANGED <<fmem, trapped, ftypes, flive, fops, reuse, varVars, shadowVars, gcs, em>>

HeapsOf(fields) == [i \in 1 .. Len(fields) |-> HeapOf(fields[i].ty)]

Laid(what, reg) == Registered(what, reg, HeapsOf(reg.fields))

\* flatten_stmt of a struct declaration
LayStruct == Laid("struct", segregate_fields(cu.fields))

\* flatten_stmt of a nested function: the record of its captures
LayCaptures == Laid("captures", segregate_fields(cu.fields))

\* wrap_program: the tagged record, whose value field holds the boxed value
LayTagged == Registered("tagged", tagged_union_struct, <<0, HeapOf(cu.boxed)>>)

NextLayout == LayStruct \/ LayCaptures \/ LayTagged

SpecLayout == InitLayout /\ [][NextLayout]_vars

\* C14: in every registered struct a field holds a fixed-heap pointer exactly
\* when it is among the first struct_count fields and a variable-heap pointer
\* exactly when it is among the next list_count fields; the other fields
\* hold no heap pointer
C14_CountsCoverThePointers ==
    (cu.pass = "layout" /\ cu.made # "nothing") =>
        \A i \in 1 .. Len(cu.holds) :
            /\ cu.holds[i] = 1 <=> i <= cu.reg.struct_count
            /\ cu.holds[i] = 2 <=> (cu.reg.struct_count < i
                                     /\ i <= cu.reg.struct_count + cu.reg.list_count)

(***************************************************************************)
(* Specification SpecLower: the IR generator lowers `new S { ... }` and a   *)
(* read of a field of S.  cu.fields are the fields of S as declared,       *)
(* cu.written the names of the `new` in the order they are written; the    *)
(* initialiser written for field f is named f.                             *)
(***************************************************************************)
\* the orders n field names can be written in
Orders(n) == {w \in [1 .. n -> 1 .. n] : \A i, j \in 1 .. n : w[i] = w[j] => i = j}

InitLower ==
    /\ Runtime
    /\ \E tys \in FieldLists :
           \E w \in Orders(Len(tys)) :
               cu = [pass |-> "lower", fields |-> Declared(tys), written |-> w,
                     layout |-> segregate_fields(Declared(tys)).fields,
                     lowered |-> FALSE, ir |-> << >>, field |-> 0, offset |-> 0, got |-> 0]

\* lower_expr of Expr::New: the initialisers, in the order of the source
lower_new(written) == [k \in 1 .. Len(written) |-> written[k]]

\* get_field_offset: 8 bytes for every field in front of the one named
RECURSIVE get_field_offset(_, _, _)
get_field_offset(fields, field_name, k) ==
    IF k > Len(fields) THEN -1
    ELSE IF fields[k].name = field_name THEN 8 * (k - 1)
    ELSE get_field_offset(fields, field_name, k + 1)

LowerIdle == <<fmem, trapped, ftypes, flive, fops, reuse, varVars, shadowVars, gcs, em>>

LowerNew ==
    /\ cu.pass = "lower" /\ ~cu.lowered
    /\ cu' = [cu EXCEPT !.lowered = TRUE, !.ir = lower_new(cu.written)]
    /\ UNCHANGED LowerIdle

\* the record is made (the k-th expression of the IR node is stored at
\* offset 8 * (k - 1)) and its field f is read at the offset of f
Fetched(f, offset) ==
    cu' = [cu EXCEPT !.field = f, !.offset = offset, !.got = cu.ir[(offset \div 8) + 1]]

ReadField(f) ==
    /\ cu.pass = "lower" /\ cu.lowered /\ cu.field = 0
    /\ f \in 1 .. Len(cu.fields)
    /\ Fetched(f, get_field_offset(cu.layout, f, 1))
    /\ UNCHANGED LowerIdle

NextLower == LowerNew \/ \E f \in 1 .. MaxFields + 1 : ReadField(f)

SpecLower == InitLower /\ [][NextLower]_vars

\* C15: whatever the order the fields of `new S { ... }` are written in,
\* reading field f of the record yields the initialiser written for f
C15_FieldReadsItsInitialiser ==
    (cu.pass = "lower" /\ cu.field # 0) => cu.got = cu.field

(***************************************************************************)
(* The wrapper.  An expression is its type and its node: an atom (any      *)
(* expression that is not a `new` of the tagged record), the null literal  *)
(* or the `new` of the tagged record with its tag and the boxed            *)
(* expression.                                                             *)
(***************************************************************************)
Atom(ty) == [ty |-> ty, op |-> "atom", tag |-> 0, value |-> << >>]

\* the null literal as the type checker types it
NullLit == [ty |-> Type("Null", TRUE, FALSE), op |-> "null", tag |-> 0, value |-> << >>]

\* a wrapper that does not look at the flags of the expression
wrap_to_type_any(expr, expected, is_raised) ==
    IF \/ expr.ty.kind = "Null"
       \/ is_raised
       \/ expected.errorable \/ expected.nullable
    THEN [ty |-> expected, op |-> "new",
          tag |-> IF is_raised THEN 1 ELSE IF expr.ty.kind = "Null" THEN 0 ELSE 2,
          value |-> <<expr>>]
    ELSE expr

wrap_to_type(expr, expected, is_raised) ==
    IF \/ expr.ty.kind = "Null"
       \/ is_raised
       \/ ((~expr.ty.errorable /\ ~expr.ty.nullable) /\ (expected.errorable \/ expected.nullable))
    THEN [ty |-> expected, op |-> "new",
          tag |-> IF is_raised THEN 1 ELSE IF expr.ty.kind = "Null" THEN 0 ELSE 2,
          value |-> <<expr>>]
    ELSE expr

(***************************************************************************)
(* Specification SpecWrap: an expression reaches a site that expects a     *)
(* type: the value of a let, a const, a return, an argument, a field       *)
(* initialiser or an assignment, or the expression of a raise; what the    *)
(* wrapper made of it may reach a second site (the argument of a call that *)
(* is itself the value of a let).                                          *)
(***************************************************************************)
WrapKinds == {"Integer", "String", "Struct"}

WrapTypes == {Type(k, n, e) : k \in WrapKinds, n \in BOOLEAN, e \in BOOLEAN}

WrapExprs == {Atom(ty) : ty \in WrapTypes} \cup {NullLit}

InitWrap ==
    /\ Runtime
    /\ \E e \in WrapExprs, t \in WrapTypes :
           cu = [pass |-> "wrap", expr |-> e, expected |-> t, sites |-> 0,
                 raised |-> FALSE, out |-> e]

WrapIdle == <<fmem, trapped, ftypes, flive, fops, reuse, varVars, shadowVars, gcs, em>>

\* wrap_stmt of Let, Const and Return, wrap_expr of New, Call and `=`
WrapValue ==
    /\ cu.pass = "wrap" /\ cu.sites = 0
    /\ cu' = [cu EXCEPT !.sites = 1, !.out = wrap_to_type(cu.expr, cu.expected, FALSE)]
    /\ UNCHANGED WrapIdle

\* wrap_stmt of Raise; the type checker lets through the expressions whose
\* kind is an error struct, in functions whose return type is errorable
WrapRaise ==
    /\ cu.pass = "wrap" /\ cu.sites = 0
    /\ cu.expr.ty.kind = "Struct" /\ cu.expected.errorable
    /\ cu' = [cu EXCEPT !.sites = 1, !.raised = TRUE,
                        !.out = wrap_to_type(cu.expr, cu.expected, TRUE)]
    /\ UNCHANGED WrapIdle

\* what a value site made reaches a second value site
WrapAgain(t) ==
    /\ cu.pass = "wrap" /\ cu.sites = 1 /\ ~cu.raised
    /\ cu' = [cu EXCEPT !.sites = 2, !.expr = cu.out, !.expected = t,
                        !.out = wrap_to_type(cu.out, t, FALSE)]
    /\ UNCHANGED WrapIdle

NextWrap == WrapValue \/ WrapRaise \/ \E t \in WrapTypes : WrapAgain(t)

SpecWrap == InitWrap /\ [][NextWrap]_vars

Tagged(ty) == ty.nullable \/ ty.errorable

BoxOf(out, tag, expr, expected) ==
    out.op = "new" /\ out.tag = tag /\ out.value = <<expr>> /\ out.ty = expected

I32(n) == [vt |-> "i32", lo |-> n, hi |-> 0]

I64(lo, hi) == [vt |-> "i64", lo |-> lo, hi |-> hi]

F64(lo, hi) == [vt |-> "f64", lo |-> lo, hi |-> hi]

\* type_to_valtype of a type that is neither nullable nor errorable
ValtypeOf(kind) ==
    IF kind \in {"String", "List", "Struct", "Boolean"} THEN "i32"
    ELSE IF kind = "Float" THEN "f64"
    ELSE "i64"

\* i64.extend_i32_u, i64.reinterpret_f64, or nothing
emit_storage_cast(kind, x) ==
    IF kind \in {"Struct", "List", "String", "Boolean"} THEN I64(x.lo, 0)
    ELSE IF kind = "Float" THEN I64(x.lo, x.hi)
    ELSE x

\* i32.wrap_i64, f64.reinterpret_i64, or nothing
emit_access_cast(kind, x) ==
    IF kind \in {"Struct", "List", "String", "Boolean"} THEN I32(x.lo)
    ELSE IF kind = "Float" THEN F64(x.lo, x.hi)
    ELSE x

Load64(m, a) == I64(read_u32(m, a), read_u32(m, a + 4))

Store64(m, a, x) == write_u32(write_u32(m, a, x.lo), a + 4, x.hi)

\* what an unwrap leaves: whether it trapped, the value on the stack and
\* whether the value word of the record was read
Unwrapped(ok, ret, readv) == [ok |-> ok, ret |-> ret, readv |-> readv]

\* an unwrap that loads the word it has tested
emit_unwrap_tested_word(m, x, tag, result_ty) ==
    IF ~(InF(x.lo) /\ InF(x.lo + 4)) THEN Unwrapped(FALSE, x, FALSE)
    ELSE IF Load64(m, x.lo) = I64(tag, 0) THEN Unwrapped(FALSE, x, FALSE)
    ELSE IF result_ty.nullable \/ result_ty.errorable THEN Unwrapped(TRUE, x, FALSE)
    ELSE Unwrapped(TRUE, emit_access_cast(result_ty.kind, Load64(m, x.lo)), TRUE)

\* emit_unwrap: local.tee 0; i64.load; i64.const tag; i64.eq; if unreachable
\* else local.get 0 and, when the result is neither nullable nor errorable,
\* i64.load offset 8 and the access cast
emit_unwrap(m, x, tag, result_ty) ==
    IF ~(InF(x.lo) /\ InF(x.lo + 4)) THEN Unwrapped(FALSE, x, FALSE)
    ELSE IF Load64(m, x.lo) = I64(tag, 0) THEN Unwrapped(FALSE, x, FALSE)
    ELSE IF result_ty.nullable \/ result_ty.errorable THEN Unwrapped(TRUE, x, FALSE)
    ELSE IF ~(InF(x.lo + 8) /\ InF(x.lo + 12)) THEN Unwrapped(FALSE, x, FALSE)
    ELSE Unwrapped(TRUE, emit_access_cast(result_ty.kind, Load64(m, x.lo + 8)), TRUE)

\* the code of New for the tagged record wrap_to_type made: the site, then
\* the two i64.store of the tag and of the value after its storage cast
StoreBox(x, tag, kind, v) ==
    IF ~x.ok THEN x
    ELSE IF ~(InF(x.ret) /\ InF(x.ret + 12)) THEN [x EXCEPT !.ok = FALSE]
    ELSE [x EXCEPT !.f = Store64(Store64(x.f, x.ret, I64(tag, 0)),
                                 x.ret + 8, emit_storage_cast(kind, v))]

NewBox(w, tag, kind, v) ==
    StoreBox(emit_gc_retry(Park4(w, BoxType), "falloc", {}), tag, kind, v)

(***************************************************************************)
(* Specification SpecUnwrap: an expression of a nullable or errorable type *)
(* is evaluated to a tagged record (a value boxed with tag 2, the null     *)
(* literal boxed with tag 0 or a raised error boxed with tag 1) and the    *)
(* operators ?? and !! are applied to it as far as its type allows.        *)
(***************************************************************************)
UnwrapKinds == {"Integer", "Boolean", "Struct", "Float"}

\* the run-time values of a kind
ValuesOf(kind) ==
    IF ValtypeOf(kind) = "i32" THEN {I32(n) : n \in {0, 1, 300}}
    ELSE IF ValtypeOf(kind) = "f64" THEN {F64(lo, hi) : lo \in {0, 7}, hi \in {0, 1}}
    ELSE {I64(lo, hi) : lo \in {0, 7}, hi \in {0, 1}}

Contents(ty) ==
    {"value"} \cup (IF ty.nullable THEN {"null"} ELSE {})
              \cup (IF ty.errorable THEN {"error"} ELSE {})

InitUnwrap ==
    /\ Runtime
    /\ \E k \in UnwrapKinds, n \in BOOLEAN, e \in BOOLEAN :
           /\ n \/ e
           /\ \E v \in ValuesOf(k), c \in Contents(Type(k, n, e)) :
                  cu = [pass |-> "unwrap", v |-> v, content |-> c, ty |-> Type(k, n, e),
                        stage |-> "source", cur |-> I32(0), last |-> -1, rtag |-> -1,
                        readv |-> FALSE]

UnwrapIdle == <<ftypes, flive, fops, reuse, varVars, frames, marked, sops, gcs, em>>

Evaluated(x) ==
    /\ fmem' = x.f
    /\ smem' = x.s
    /\ trapped' = ~x.ok
    /\ cu' = [cu EXCEPT !.stage = "boxed", !.cur = I32(x.ret)]
    /\ UNCHANGED UnwrapIdle

\* the prologue of main of a program that declares no struct: the tagged
\* record is the only type
Registering == World(RegisterAll(fmem, <<EmitShapes[BoxType + 1]>>, 1), dmem, smem, TRUE)

\* the expression is evaluated: wrap_to_type has made it a `new` of the
\* tagged record, of the value, of the null literal (i64.const 0) or of the
\* raised error (a pointer to its struct)
BoxIt ==
    /\ cu.pass = "unwrap" /\ cu.stage = "source"
    /\ Evaluated(IF cu.content = "value" THEN NewBox(Registering, 2, cu.ty.kind, cu.v)
                 ELSE IF cu.content = "null" THEN NewBox(Registering, 0, "Null", I64(0, 0))
                 ELSE NewBox(Registering, 1, "Struct", I32(300)))

Applied(tag, result_ty, u) ==
    /\ trapped' = ~u.ok
    /\ cu' = [cu EXCEPT !.stage = "unwrapped", !.ty = result_ty, !.cur = u.ret,
                        !.last = tag, !.rtag = read_u32(fmem, cu.cur.lo),
                        !.readv = u.readv]
    /\ UNCHANGED <<fmem, smem, UnwrapIdle>>

Apply(tag, result_ty) == Applied(tag, result_ty, emit_unwrap(fmem, cu.cur, tag, result_ty))

\* e ??
UnwrapNull ==
    /\ cu.pass = "unwrap" /\ cu.stage # "source" /\ ~trapped
    /\ cu.ty.nullable
    /\ Apply(0, Type(cu.ty.kind, FALSE, cu.ty.errorable))

\* e !!
UnwrapError ==
    /\ cu.pass = "unwrap" /\ cu.stage # "source" /\ ~trapped
    /\ cu.ty.errorable
    /\ Apply(1, Type(cu.ty.kind, cu.ty.nullable, FALSE))

NextUnwrap == BoxIt \/ UnwrapNull \/ UnwrapError

SpecUnwrap == InitUnwrap /\ [][NextUnwrap]_vars

\* C16: a value boxed with tag 2 is what ?? and !! yield once the type is no
\* longer nullable or errorable, and neither of them traps on it; ?? traps
\* on a record with tag 0 and !! on a record with tag 1; the value word is
\* never read from a record whose tag is the tag tested
C16_UnwrapInversion ==
    (cu.pass = "unwrap" /\ cu.stage = "unwrapped") =>
        /\ cu.content = "value" =>
               /\ ~trapped
               /\ ~Tagged(cu.ty) => cu.cur = cu.v
        /\ (cu.last = 0 /\ cu.rtag = 0) => trapped
        /\ (cu.last = 1 /\ cu.rtag = 1) => trapped
        /\ cu.readv => cu.rtag # cu.last

\* a value of a type that is both nullable and errorable has been boxed and
\* both operators have been applied: the value is back
C16_Witness ==
    /\ cu.pass = "unwrap" /\ cu.stage = "unwrapped" /\ ~trapped
    /\ cu.content = "value" /\ ~Tagged(cu.ty) /\ cu.readv
    /\ cu.v.lo # 0 /\ cu.cur = cu.v

(***************************************************************************)
(* Specification SpecAssign: the type checker asks whether a value of one  *)
(* type may be assigned where another type is expected.                    *)
(***************************************************************************)
\* an assignability that asks for equal flags
is_assignable_same_flags(from, to) ==
    IF from.kind = "Null" THEN to.nullable
    ELSE IF from.kind = "Unknown"
    THEN from.nullable = to.nullable /\ from.errorable = to.errorable
    ELSE /\ from.kind = to.kind
         /\ from.nullable = to.nullable
         /\ from.errorable = to.errorable

is_assignable(from, to) ==
    IF from.kind = "Null" THEN to.nullable
    ELSE IF from.kind = "Unknown"
    THEN /\ (from.nullable = to.nullable \/ to.nullable)
         /\ (from.errorable = to.errorable \/ to.errorable)
    ELSE /\ from.kind = to.kind
         /\ (from.nullable = to.nullable \/ to.nullable)
         /\ (from.errorable = to.errorable \/ to.errorable)

ConcreteKinds == {"Integer", "String", "Struct"}

AssignTypes == {Type(k, n, e) : k \in ConcreteKinds \cup {"Null", "Unknown"},
                                n \in BOOLEAN, e \in BOOLEAN}

InitAssign ==
    /\ Runtime
    /\ \E from \in AssignTypes, to \in AssignTypes :
           cu = [pass |-> "assign", from |-> from, to |-> to, checked |-> FALSE,
                 assignable |-> FALSE]

\* check_stmt and check_expr where a value meets an expected type
CheckAssignable ==
    /\ cu.pass = "assign" /\ ~cu.checked
    /\ cu' = [cu EXCEPT !.checked = TRUE, !.assignable = is_assignable(cu.from, cu.to)]
    /\ UNCHANGED <<fmem, trapped, ftypes, flive, fops, reuse, varVars, shadowVars, gcs, em>>

NextAssign == CheckAssignable

SpecAssign == InitAssign /\ [][NextAssign]_vars

\* C18: between types of the same concrete kind, from is assignable to to
\* exactly when every flag set in from is set in to; Null is assignable to
\* exactly the nullable types; Unknown without flags is assignable to every
\* type
C18_AssignabilityLaws ==
    (cu.pass = "assign" /\ cu.checked) =>
        /\ (cu.from.kind \in ConcreteKinds /\ cu.to.kind = cu.from.kind) =>
               (cu.assignable <=> /\ cu.from.nullable => cu.to.nullable
                                  /\ cu.from.errorable => cu.to.errorable)
        /\ cu.from.kind = "Null" => (cu.assignable <=> cu.to.nullable)
        /\ (cu.from.kind = "Unknown" /\ ~cu.from.nullable /\ ~cu.from.errorable) =>
               cu.assignable

\* T has been found assignable to T?!
C18_Witness ==
    /\ cu.pass = "assign" /\ cu.checked /\ cu.assignable
    /\ cu.from = Plain("Integer") /\ cu.to = Type("Integer", TRUE, TRUE)

(***************************************************************************)
(* The flattener.  A statement is its kind, the index of the function it   *)
(* declares or closes over, its block (the body of a function, a while or  *)
(* a for, the then-block of an if) and its second block (the else-block of *)
(* an if; the init and the update of a for).                               *)
(***************************************************************************)
MaxDepth == 3

Stmt(k, id, a, b) == [k |-> k, id |-> id, a |-> a, b |-> b]

\* a statement that declares no function and has no block
Leaf == Stmt("let", 0, << >>, << >>)

\* the function named main
MainName == 0

RECURSIVE FlattenFrom(_, _, _)
RECURSIVE flatten_stmt(_, _)

\* what flatten_stmt leaves: the statement that stands for the one given and
\* the list self.functions
Flat(stmt, fns) == [stmt |-> stmt, fns |-> fns]

\* the map over a block: the statements made so far and self.functions
Block(stmts, fns) == [stmts |-> stmts, fns |-> fns]

FlatInto(acc, r) == Block(Append(acc.stmts, r.stmt), r.fns)

FlattenFrom(stmts, i, acc) ==
    IF i > Len(stmts) THEN acc
    ELSE FlattenFrom(stmts, i + 1, FlatInto(acc, flatten_stmt(stmts[i], acc.fns)))

FlattenBlock(stmts, fns) == FlattenFrom(stmts, 1, Block(<< >>, fns))

\* Function: the flattened function is pushed after those nested in it and
\* a LocalClosure stands for the declaration
Closed(stmt, body) ==
    Flat(Stmt("closure", stmt.id, << >>, << >>),
         Append(body.fns, Stmt("fn", stmt.id, body.stmts, << >>)))

Branched(stmt, then, else) == Flat(Stmt("if", stmt.id, then.stmts, else.stmts), else.fns)

ThenElse(stmt, then) == Branched(stmt, then, FlattenBlock(stmt.b, then.fns))

Looped(stmt, body) == Flat(Stmt(stmt.k, stmt.id, body.stmts, stmt.b), body.fns)

ForBody(stmt, heads) ==
    Flat(Stmt("for", stmt.id, FlattenBlock(stmt.a, heads.fns).stmts, heads.stmts),
         FlattenBlock(stmt.a, heads.fns).fns)

\* a flattener that copies the while statement as it is
flatten_stmt_but_while(stmt, fns) ==
    IF stmt.k = "fn" THEN Closed(stmt, FlattenBlock(stmt.a, fns))
    ELSE IF stmt.k = "if" THEN ThenElse(stmt, FlattenBlock(stmt.a, fns))
    ELSE IF stmt.k = "for" THEN ForBody(stmt, FlattenBlock(stmt.b, fns))
    ELSE Flat(stmt, fns)

flatten_stmt(stmt, fns) ==
    IF stmt.k = "fn" THEN Closed(stmt, FlattenBlock(stmt.a, fns))
    ELSE IF stmt.k = "if" THEN ThenElse(stmt, FlattenBlock(stmt.a, fns))
    ELSE IF stmt.k = "while" THEN Looped(stmt, FlattenBlock(stmt.a, fns))
    ELSE IF stmt.k = "for" THEN ForBody(stmt, FlattenBlock(stmt.b, fns))
    ELSE Flat(stmt, fns)

\* the position of the first function named main, 0 when there is none
RECURSIVE MainAt(_, _)
MainAt(fns, i) ==
    IF i > Len(fns) THEN 0
    ELSE IF fns[i].id = MainName THEN i
    ELSE MainAt(fns, i + 1)

MainFirst(fns, pos) ==
    IF pos = 0 THEN fns
    ELSE <<fns[pos]>> \o SubSeq(fns, 1, pos - 1) \o SubSeq(fns, pos + 1, Len(fns))

Moved(fns) == MainFirst(fns, MainAt(fns, 1))

\* flatten_program: the statements of the program are flattened, what stands
\* for them is dropped, and main is moved to the front of the functions
flatten_program(program) == Moved(FlattenBlock(program, << >>).fns)

(***************************************************************************)
(* Specification SpecFlatten: a program is flattened.  The program is a    *)
(* helper function and main; in main, blocks are nested as cu.spine says:  *)
(* level i is a function, an if, a while or a for that holds level i + 1   *)
(* and, next to it, nothing, a let or one more function.                   *)
(***************************************************************************)
Levels == [kind : {"fn", "if", "while", "for"}, sib : {"none", "let", "fn"}]

Spines == UNION {[1 .. n -> Levels] : n \in 0 .. MaxDepth}

Siblings(level, i) ==
    IF level.sib = "none" THEN << >>
    ELSE IF level.sib = "let" THEN <<Leaf>>
    ELSE <<Stmt("fn", (2 * i) + 1, <<Leaf>>, << >>)>>

RECURSIVE Nest(_, _)
Nest(spine, i) ==
    IF i > Len(spine) THEN Leaf
    ELSE IF spine[i].kind = "fn"
    THEN Stmt("fn", 2 * i, <<Nest(spine, i + 1)>> \o Siblings(spine[i], i), << >>)
    ELSE IF spine[i].kind = "if"
    THEN Stmt("if", 0, <<Nest(spine, i + 1)>>, Siblings(spine[i], i))
    ELSE IF spine[i].kind = "while"
    THEN Stmt("while", 0, <<Nest(spine, i + 1)>> \o Siblings(spine[i], i), << >>)
    ELSE Stmt("for", 0, <<Nest(spine, i + 1)>> \o Siblings(spine[i], i), <<Leaf, Leaf>>)

ProgramOf(spine) ==
    << Stmt("fn", 1, <<Leaf>>, << >>), Stmt("fn", MainName, <<Nest(spine, 1)>>, << >>) >>

InitFlatten ==
    /\ Runtime
    /\ \E spine \in Spines :
           cu = [pass |-> "flatten", spine |-> spine, program |-> ProgramOf(spine),
                 flattened |-> FALSE, functions |-> << >>]

Flatten ==
    /\ cu.pass = "flatten" /\ ~cu.flattened
    /\ cu' = [cu EXCEPT !.flattened = TRUE, !.functions = flatten_program(cu.program)]
    /\ UNCHANGED <<fmem, trapped, ftypes, flive, fops, reuse, varVars, shadowVars, gcs, em>>

NextFlatten == Flatten

SpecFlatten == InitFlatten /\ [][NextFlatten]_vars

\* the statements of kind k and index id in a block, at any depth
RECURSIVE CountIn(_, _, _, _)
CountIn(stmts, i, k, id) ==
    IF i > Len(stmts) THEN 0
    ELSE (IF stmts[i].k = k /\ stmts[i].id = id THEN 1 ELSE 0)
         + CountIn(stmts[i].a, 1, k, id) + CountIn(stmts[i].b, 1, k, id)
         + CountIn(stmts, i + 1, k, id)

\* the Function statements in a block, at any depth
RECURSIVE Functions(_, _)
Functions(stmts, i) ==
    IF i > Len(stmts) THEN 0
    ELSE (IF stmts[i].k = "fn" THEN 1 ELSE 0)
         + Functions(stmts[i].a, 1) + Functions(stmts[i].b, 1) + Functions(stmts, i + 1)

FnIds == 0 .. ((2 * MaxDepth) + 1)

\* the LocalClosure statements for function id in the bodies of the output
RECURSIVE Closures(_, _, _)
Closures(fns, i, id) ==
    IF i > Len(fns) THEN 0
    ELSE CountIn(fns[i].a, 1, "closure", id) + Closures(fns, i + 1, id)

\* the declarations of function id among the statements of the program itself
TopLevel(program, id) ==
    Cardinality({i \in 1 .. Len(program) : program[i].k = "fn" /\ program[i].id = id})

\* C19: after flattening, no body of a function of the output holds a
\* Function statement; every function declared in the program, at any depth
\* and inside if, while and for, is in the output exactly once, a
\* LocalClosure stands for every nested declaration, and main is first
C19_ClosureLocality ==
    (cu.pass = "flatten" /\ cu.flattened) =>
        /\ \A i \in 1 .. Len(cu.functions) :
               cu.functions[i].k = "fn" /\ Functions(cu.functions[i].a, 1) = 0
        /\ Len(cu.functions) = Functions(cu.program, 1)
        /\ \A id \in FnIds :
               /\ CountIn(cu.functions, 1, "fn", id) = CountIn(cu.program, 1, "fn", id)
               /\ Closures(cu.functions, 1, id)
                      = CountIn(cu.program, 1, "fn", id) - TopLevel(cu.program, id)
        /\ cu.functions[1].id = MainName

\* a function declared in a while in a function in main, with one more
\* function next to it, has been flattened
C19_Witness ==
    /\ cu.pass = "flatten" /\ cu.flattened
    /\ Len(cu.spine) = 3
    /\ cu.spine[1].kind = "fn" /\ cu.spine[2].kind = "while" /\ cu.spine[3].kind = "fn"
    /\ cu.spine[2].sib = "fn"
    /\ Len(cu.functions) = 5

(***************************************************************************)
(* The locals indexer.  Of its state the model keeps, for every function   *)
(* being analysed (root first), the arity, the slots given to its          *)
(* parameters and the slots given to the variables declared in it so far   *)
(* (the length of that list is the length of the top of                    *)
(* locals_types_stack), and current_param_count and fn_count.  The names   *)
(* declared in one block are taken to be distinct, so define and           *)
(* define_param do not fail.                                               *)
(***************************************************************************)
MaxNest == 3
MaxArity == 2
MaxLocals == 3

\* the slots of the two temporaries and of the captures pointer
ReservedSlots == 3

FnScope(arity) ==
    [arity |-> arity, params |-> [i \in 1 .. arity |-> (i - 1) + ReservedSlots], locals |-> << >>]

\* LocalsIndexer::new
NewIndexer == [pass |-> "locals", fns |-> << >>, current_param_count |-> 0, fn_count |-> 1, done |-> FALSE]

\* the slot define gives: locals.len() + 3 + num_params
define_index(c) == Len(c.fns[Len(c.fns)].locals) + ReservedSlots + c.current_param_count

define(c) == [c EXCEPT !.fns[Len(c.fns)].locals = Append(@, define_index(c))]

push_fn(c) == [c EXCEPT !.fns = Append(@, FnScope(0))]

pop_fn(c) == [c EXCEPT !.fns = SubSeq(@, 1, Len(@) - 1), !.current_param_count = 0]

\* analyze_stmt of Function up to its body: the name is defined in the
\* enclosing function, a function scope is pushed and the parameters defined
enter_function(c, arity) ==
    [push_fn(define(c)) EXCEPT !.current_param_count = arity, !.fns[Len(c.fns) + 1] = FnScope(arity)]

\* analyze_stmt of Function after its body
leave_function(c) == [pop_fn(c) EXCEPT !.fn_count = @ + 1]

(***************************************************************************)
(* Specification SpecLocals: a program is analysed statement by statement. *)
(***************************************************************************)
InitLocals == Runtime /\ cu = NewIndexer

LocalsIdle == UNCHANGED <<fmem, trapped, ftypes, flive, fops, reuse, varVars, shadowVars, gcs, em>>

Analysing == cu.pass = "locals" /\ ~cu.done /\ Len(cu.fns) >= 1

AnalyzeProgram ==
    /\ cu.pass = "locals" /\ ~cu.done /\ cu.fns = << >>
    /\ cu' = push_fn(cu)
    /\ LocalsIdle

\* a let or a const
AnalyzeLet ==
    /\ Analysing
    /\ Len(cu.fns[Len(cu.fns)].locals) < MaxLocals
    /\ cu' = define(cu)
    /\ LocalsIdle

AnalyzeFunction(arity) ==
    /\ Analysing
    /\ Len(cu.fns) <= MaxNest
    /\ Len(cu.fns[Len(cu.fns)].locals) < MaxLocals
    /\ cu' = enter_function(cu, arity)
    /\ LocalsIdle

FunctionAnalyzed ==
    /\ Analysing
    /\ Len(cu.fns) >= 2
    /\ cu' = leave_function(cu)
    /\ LocalsIdle

ProgramAnalyzed ==
    /\ Analysing
    /\ Len(cu.fns) = 1
    /\ cu' = [pop_fn(cu) EXCEPT !.done = TRUE]
    /\ LocalsIdle

NextLocals ==
    \/ AnalyzeProgram
    \/ AnalyzeLet
    \/ \E arity \in 0 .. MaxArity : AnalyzeFunction(arity)
    \/ FunctionAnalyzed
    \/ ProgramAnalyzed

SpecLocals == InitLocals /\ [][NextLocals]_vars

\* the slots of one function: those of its parameters, then those of its variables
SlotsOf(f) == f.params \o f.locals

\* C20: in every function of arity a, parameter i has slot 3 + i and the
\* k-th variable declared in it (let, const or nested function name, counted
\* from 0 in declaration order) has slot 3 + a + k, so the slots of one
\* function are pairwise distinct, also after a nested function declaration
C20_SlotLayout ==
    cu.pass = "locals" =>
        \A n \in 1 .. Len(cu.fns) :
            /\ \A i \in 1 .. Len(cu.fns[n].params) :
                   cu.fns[n].params[i] = ReservedSlots + (i - 1)
            /\ \A k \in 1 .. Len(cu.fns[n].locals) :
                   cu.fns[n].locals[k] = ReservedSlots + cu.fns[n].arity + (k - 1)
            /\ \A i, j \in 1 .. Len(SlotsOf(cu.fns[n])) :
                   i # j => SlotsOf(cu.fns[n])[i] # SlotsOf(cu.fns[n])[j]

(***************************************************************************)
(* Control flow of the emitted code.  An IR statement is a Stmt: a         *)
(* LocalSet ("let", its index in id), Break, Continue, If (then-block a,   *)
(* else-block b, none when b is empty), While (body a) and For (body a,    *)
(* init and update in b).  An instruction is its WebAssembly opcode, its   *)
(* label index and, for the observation of the run only, the statement it  *)
(* was emitted for.  "Cond" stands for the code of a condition, which      *)
(* leaves 0 or 1 on the operand stack.                                     *)
(***************************************************************************)
MaxIfDepth == 2
MaxSteps == 24

Ins(op, n, of) == [op |-> op, n |-> n, of |-> of]

RECURSIVE compile_stmt(_)
RECURSIVE CompileFrom(_, _)

CompileFrom(stmts, i) ==
    IF i > Len(stmts) THEN << >>
    ELSE compile_stmt(stmts[i]) \o CompileFrom(stmts, i + 1)

CompileBlock(stmts) == CompileFrom(stmts, 1)

ElseBlock(stmts) ==
    IF stmts = << >> THEN << >> ELSE <<Ins("Else", 0, "if")>> \o CompileBlock(stmts)

LoopHead(of) == <<Ins("Loop", 0, of), Ins("Cond", 0, of), Ins("I32Eqz", 0, of), Ins("BrIf", 1, of)>>

LoopTail(of) == <<Ins("Br", 0, of), Ins("End", 0, of), Ins("End", 0, of)>>

compile_stmt(stmt) ==
    IF stmt.k = "break" THEN <<Ins("Br", 1, "break")>>
    ELSE IF stmt.k = "continue" THEN <<Ins("Br", 0, "continue")>>
    ELSE IF stmt.k = "if"
    THEN <<Ins("Cond", 0, "if"), Ins("If", 0, "if")>> \o CompileBlock(stmt.a)
             \o ElseBlock(stmt.b) \o <<Ins("End", 0, "if")>>
    ELSE IF stmt.k = "while"
    THEN <<Ins("Block", 0, "while")>> \o LoopHead("while") \o CompileBlock(stmt.a)
             \o LoopTail("while")
    ELSE IF stmt.k = "for"
    THEN <<Ins("Block", 0, "for")>> \o compile_stmt(stmt.b[1]) \o LoopHead("for")
             \o CompileBlock(stmt.a) \o compile_stmt(stmt.b[2]) \o LoopTail("for")
    ELSE <<Ins("LocalSet", stmt.id, "let")>>

(***************************************************************************)
(* The structure of a code sequence, as WebAssembly defines it.            *)
(***************************************************************************)
Opens(ins) == ins.op \in {"Block", "Loop", "If"}

\* the positions of the blocks, loops and ifs that are open at pc, innermost last
RECURSIVE OpenAt(_, _, _, _)
OpenAt(code, i, pc, open) ==
    IF i >= pc THEN open
    ELSE IF Opens(code[i]) THEN OpenAt(code, i + 1, pc, Append(open, i))
    ELSE IF code[i].op = "End" THEN OpenAt(code, i + 1, pc, SubSeq(open, 1, Len(open) - 1))
    ELSE OpenAt(code, i + 1, pc, open)

Labels(code, pc) == OpenAt(code, 1, pc, << >>)

\* the End that closes what is open from position i on, depth counting the nesting
RECURSIVE Closing(_, _, _)
Closing(code, i, depth) ==
    IF i > Len(code) THEN i
    ELSE IF Opens(code[i]) THEN Closing(code, i + 1, depth + 1)
    ELSE IF code[i].op = "End"
    THEN (IF depth = 0 THEN i ELSE Closing(code, i + 1, depth - 1))
    ELSE Closing(code, i + 1, depth)

EndOf(code, open) == Closing(code, open + 1, 0)

\* the Else of the If at position open, 0 when it has none
RECURSIVE ElseFrom(_, _, _)
ElseFrom(code, i, depth) ==
    IF i > Len(code) THEN 0
    ELSE IF Opens(code[i]) THEN ElseFrom(code, i + 1, depth + 1)
    ELSE IF code[i].op = "End"
    THEN (IF depth = 0 THEN 0 ELSE ElseFrom(code, i + 1, depth - 1))
    ELSE IF code[i].op = "Else" /\ depth = 0 THEN i
    ELSE ElseFrom(code, i + 1, depth)

ElseOf(code, open) == ElseFrom(code, open + 1, 0)

\* where a branch to a label continues: after the end of a block or an if,
\* at the start of a loop
Continuation(code, label) ==
    IF code[label].op = "Loop" THEN label + 1 ELSE EndOf(code, label) + 1

\* br n at pc: the label n levels out from the innermost one
BranchTarget(code, pc, n) ==
    Continuation(code, Labels(code, pc)[Len(Labels(code, pc)) - n])

\* the innermost loop a statement at pc is in, as an index into Labels
RECURSIVE LoopIn(_, _, _)
LoopIn(code, labels, i) ==
    IF i = 0 THEN 0
    ELSE IF code[labels[i]].op = "Loop" THEN i
    ELSE LoopIn(code, labels, i - 1)

InnermostLoop(code, pc) == LoopIn(code, Labels(code, pc), Len(Labels(code, pc)))

\* the position of the Loop instruction of the innermost loop around pc
LoopAt(code, pc) == Labels(code, pc)[InnermostLoop(code, pc)]

\* the first instruction after the innermost loop around pc: after the End
\* of the Block the loop was emitted in
AfterLoop(code, pc) == EndOf(code, Labels(code, pc)[InnermostLoop(code, pc) - 1]) + 1

\* the update of a for loop is the statement emitted just before its Br 0
UpdateAt(code, loop) == EndOf(code, loop) - 2

(***************************************************************************)
(* Specification SpecControl: the code of one loop is run.  The loop is a  *)
(* while or a for; in its body, cu.spine nests if statements (the jump in  *)
(* the then-block or in the else-block) and inner loops around one break   *)
(* or continue, and an ordinary statement follows every nested statement.  *)
(***************************************************************************)
Step == Stmt("let", 5, << >>, << >>)

LoopVar == Stmt("let", 4, << >>, << >>)

LoopKinds == {"while", "for"}

Jumps == {"break", "continue"}

Nestings == UNION {[1 .. n -> {"then", "else"} \cup LoopKinds] : n \in 0 .. MaxIfDepth}

LoopOf(kind, body) ==
    Stmt(kind, 0, body, IF kind = "for" THEN <<LoopVar, LoopVar>> ELSE << >>)

RECURSIVE Around(_, _, _)
Around(spine, i, jump) ==
    IF i > Len(spine) THEN Stmt(jump, 0, << >>, << >>)
    ELSE IF spine[i] = "then" THEN Stmt("if", 0, <<Around(spine, i + 1, jump)>>, << >>)
    ELSE IF spine[i] = "else" THEN Stmt("if", 0, <<Step>>, <<Around(spine, i + 1, jump)>>)
    ELSE LoopOf(spine[i], <<Around(spine, i + 1, jump), Step>>)

BodyOf(kind, spine, jump) == <<LoopOf(kind, <<Around(spine, 1, jump), Step>>), Step>>

NoJump == [of |-> "none", at |-> 0]

NoLoop == [loop |-> 0, ups |-> 0]

InitControl ==
    /\ Runtime
    /\ \E kind \in LoopKinds, spine \in Nestings, jump \in Jumps :
           cu = [pass |-> "control", code |-> CompileBlock(BodyOf(kind, spine, jump)),
                 pc |-> 1, top |-> 0, steps |-> 0, last |-> NoJump,
                 owed |-> NoLoop, settled |-> NoLoop]

ControlIdle == UNCHANGED <<fmem, trapped, ftypes, flive, fops, reuse, varVars, shadowVars, gcs, em>>

At(op) ==
    /\ cu.pass = "control" /\ cu.steps < MaxSteps
    /\ cu.pc <= Len(cu.code)
    /\ cu.code[cu.pc].op = op

\* what the run has seen: the instruction executed last; the for loop an
\* executed continue belongs to and the updates of that loop executed since;
\* and, when the condition of that loop is evaluated, that count
Seen(c, ins, pc) ==
    [c EXCEPT !.steps = @ + 1,
              !.last = [of |-> ins.of, at |-> pc],
              !.owed = IF ins.of = "continue" /\ InnermostLoop(c.code, pc) # 0
                          /\ c.code[LoopAt(c.code, pc)].of = "for"
                       THEN [loop |-> LoopAt(c.code, pc), ups |-> 0]
                       ELSE IF c.owed.loop # 0 /\ pc = UpdateAt(c.code, c.owed.loop)
                       THEN [c.owed EXCEPT !.ups = @ + 1]
                       ELSE IF c.owed.loop # 0 /\ pc = c.owed.loop + 1
                       THEN NoLoop
                       ELSE c.owed,
              !.settled = IF c.owed.loop # 0 /\ pc = c.owed.loop + 1 THEN c.owed ELSE NoLoop]

Goes(c, pc) == [Seen(c, c.code[c.pc], c.pc) EXCEPT !.pc = pc]

ExecPlain ==
    /\ \E op \in {"Block", "Loop", "End", "LocalSet"} : At(op)
    /\ cu' = Goes(cu, cu.pc + 1)
    /\ ControlIdle

ExecCond ==
    /\ At("Cond")
    /\ \E v \in {0, 1} : cu' = [Goes(cu, cu.pc + 1) EXCEPT !.top = v]
    /\ ControlIdle

ExecEqz ==
    /\ At("I32Eqz")
    /\ cu' = [Goes(cu, cu.pc + 1) EXCEPT !.top = 1 - cu.top]
    /\ ControlIdle

ExecIf ==
    /\ At("If")
    /\ cu' = Goes(cu, IF cu.top # 0 THEN cu.pc + 1
                      ELSE IF ElseOf(cu.code, cu.pc) # 0 THEN ElseOf(cu.code, cu.pc) + 1
                      ELSE EndOf(cu.code, cu.pc) + 1)
    /\ ControlIdle

\* the end of a then-block: control leaves the if
ExecElse ==
    /\ At("Else")
    /\ cu' = Goes(cu, BranchTarget(cu.code, cu.pc, 0))
    /\ ControlIdle

ExecBr ==
    /\ At("Br")
    /\ cu' = Goes(cu, BranchTarget(cu.code, cu.pc, cu.code[cu.pc].n))
    /\ ControlIdle

ExecBrIf ==
    /\ At("BrIf")
    /\ cu' = Goes(cu, IF cu.top # 0 THEN BranchTarget(cu.code, cu.pc, cu.code[cu.pc].n)
                      ELSE cu.pc + 1)
    /\ ControlIdle

NextControl ==
    \/ ExecPlain
    \/ ExecCond
    \/ ExecEqz
    \/ ExecIf
    \/ ExecElse
    \/ ExecBr
    \/ ExecBrIf

SpecControl == InitControl /\ [][NextControl]_vars

\* C21: the Br 1 of a break continues at the first instruction after the
\* innermost enclosing loop, and the Br 0 of a continue at the start of the
\* next iteration of that loop, at any depth of if/else in the loop body
C21_JumpsLeaveTheInnermostLoop ==
    cu.pass = "control" =>
        /\ cu.last.of = "break" => cu.pc = AfterLoop(cu.code, cu.last.at)
        /\ cu.last.of = "continue" => cu.pc = LoopAt(cu.code, cu.last.at) + 1

\* C30: when the condition of a for loop is evaluated after an iteration in
\* which continue was executed, the update of the loop has been executed
\* exactly once since the continue
C30_ContinueRunsTheUpdate ==
    cu.pass = "control" => (cu.settled.loop # 0 => cu.settled.ups = 1)

(***************************************************************************)
(* The expression parser.  The tokens of an expression are operands and    *)
(* infix operators in turn; an expression is an operand (no arguments) or  *)
(* a Binary of an operator and its left and right expressions.             *)
(***************************************************************************)
MaxOperands == 3

Operand(name) == [op |-> name, args |-> << >>]

Binary(op, left, right) == [op |-> op, args |-> <<left, right>>]

\* the left and the right binding power of an infix operator
infix_binding_power(op) ==
    CASE op = "Is" -> <<0, 1>>
      [] op = "Or" -> <<1, 2>>
      [] op = "And" -> <<3, 4>>
      [] op \in {"Eq", "Neq"} -> <<5, 6>>
      [] op \in {"Lt", "Gt", "Lte", "Gte"} -> <<7, 8>>
      [] op = "BitwiseOr" -> <<9, 10>>
      [] op = "Xor" -> <<11, 12>>
      [] op = "BitwiseAnd" -> <<13, 14>>
      [] op \in {"Sll", "Srl"} -> <<15, 16>>
      [] op \in {"Plus", "Minus"} -> <<17, 18>>
      [] op \in {"Multiply", "Divide", "Modulo"} -> <<19, 20>>
      [] op = "In" -> <<21, 22>>
      [] op = "Power" -> <<24, 23>>

InfixOps ==
    {"Is", "Or", "And", "Eq", "Neq", "Lt", "Gt", "Lte", "Gte", "BitwiseOr", "Xor",
     "BitwiseAnd", "Sll", "Srl", "Plus", "Minus", "Multiply", "Divide", "Modulo", "In", "Power"}

\* what parse_expression leaves: the expression and the position of the next token
Parsed(expr, pos) == [expr |-> expr, pos |-> pos]

RECURSIVE parse_expression(_, _, _)
RECURSIVE InfixLoop(_, _, _, _)

\* one round of the loop with the right operand parsed
Folded(tokens, pos, min_bp, left, right) ==
    InfixLoop(tokens, right.pos, min_bp, Binary(tokens[pos], left, right.expr))

InfixLoop(tokens, pos, min_bp, left) ==
    IF pos > Len(tokens) THEN Parsed(left, pos)
    ELSE IF infix_binding_power(tokens[pos])[1] < min_bp THEN Parsed(left, pos)
    ELSE Folded(tokens, pos, min_bp, left,
                parse_expression(tokens, pos + 1, infix_binding_power(tokens[pos])[2]))

parse_expression(tokens, pos, min_bp) ==
    InfixLoop(tokens, pos + 1, min_bp, Operand(tokens[pos]))

(***************************************************************************)
(* Specification SpecParse: an expression of up to MaxOperands operands    *)
(* is parsed.                                                              *)
(***************************************************************************)
OperandNames == <<"a", "b", "c", "d", "e", "f">>

TokensOf(ops) ==
    [i \in 1 .. (2 * Len(ops)) + 1 |->
        IF i % 2 = 1 THEN OperandNames[(i + 1) \div 2] ELSE ops[i \div 2]]

InitParse ==
    /\ Runtime
    /\ \E n \in 1 .. MaxOperands - 1 : \E ops \in [1 .. n -> InfixOps] :
           cu = [pass |-> "parse", tokens |-> TokensOf(ops), parsed |-> FALSE,
                 expr |-> Operand("none")]

Parse ==
    /\ cu.pass = "parse" /\ ~cu.parsed
    /\ cu' = [cu EXCEPT !.parsed = TRUE, !.expr = parse_expression(cu.tokens, 1, 0).expr]
    /\ UNCHANGED <<fmem, trapped, ftypes, flive, fops, reuse, varVars, shadowVars, gcs, em>>

NextParse == Parse

SpecParse == InitParse /\ [][NextParse]_vars

\* a op (b op (c ...)) of the operands from the i-th on
RECURSIVE RightNested(_, _, _)
RightNested(op, i, n) ==
    IF i = n THEN Operand(OperandNames[i])
    ELSE Binary(op, Operand(OperandNames[i]), RightNested(op, i + 1, n))

\* ((a op b) op c) ... of the first n operands
RECURSIVE LeftNested(_, _)
LeftNested(op, n) ==
    IF n = 1 THEN Operand(OperandNames[1])
    ELSE Binary(op, LeftNested(op, n - 1), Operand(OperandNames[n]))

SameOperator ==
    /\ cu.pass = "parse" /\ cu.parsed /\ Len(cu.tokens) >= 5
    /\ \A i \in 1 .. Len(cu.tokens) : i % 2 = 0 => cu.tokens[i] = cu.tokens[2]

\* C22: = and ** are right-associative, a = b = c parses as Is(a, Is(b, c))
\* and a ** b ** c as Power(a, Power(b, c)); every other infix operator of
\* the precedence table is left-associative
C22_Associativity ==
    SameOperator =>
        cu.expr = IF cu.tokens[2] \in {"Is", "Power"}
                  THEN RightNested(cu.tokens[2], 1, (Len(cu.tokens) + 1) \div 2)
                  ELSE LeftNested(cu.tokens[2], (Len(cu.tokens) + 1) \div 2)

(***************************************************************************)
(* The field loops of mark_pointer against the type table of the fixed     *)
(* heap.                                                                   *)
(***************************************************************************)
\* the loop a call mark_pointer(p, 1) starts with, on the heaps as they are
StructLoop(p) == Enter(Marking(fmem, dmem, TRUE, << >>), smem, p, 1)

\* the loop that follows when the loop over the struct fields is over
ListLoop(p) ==
    MarkStep(Marking(fmem, dmem, TRUE,
                     <<[StructLoop(p).stack[1] EXCEPT !.i = StructLoop(p).stack[1].count]>>),
             smem)

\* C23: for a record of type t registered with register(size, sc, lc),
\* mark_pointer visits exactly the field words 0 .. sc - 1 as fixed-heap
\* pointers and the field words sc .. sc + lc - 1 as variable-heap pointers,
\* sc and lc being the counts register stored for t in the type table of
\* the fixed heap
C23_MarkFollowsRegisteredCounts ==
    (~trapped /\ frames # << >>) =>
        \A p \in flive :
            (read_u32(fmem, p - 4) # 1 /\ read_u32(fmem, p - 8) \in TypeIds) =>
                /\ StructLoop(p).ok /\ Len(StructLoop(p).stack) = 1
                /\ StructLoop(p).stack[1].kind = "struct"
                /\ StructLoop(p).stack[1].base = p
                /\ StructLoop(p).stack[1].count = ShapeOf(fmem, p)[2]
                /\ ListLoop(p).ok /\ Len(ListLoop(p).stack) = 1
                /\ ListLoop(p).stack[1].kind = "list"
                /\ ListLoop(p).stack[1].base = p + (ShapeOf(fmem, p)[2] * 8)
                /\ ListLoop(p).stack[1].count = ShapeOf(fmem, p)[3]

(***************************************************************************)
(* The capture records of nested functions.  The program is a chain of     *)
(* functions without parameters, function i + 1 declared in function i     *)
(* after the variables of function i; function 1 is a statement of the     *)
(* program.  A variable is named by 10 * (its function) + (its position),  *)
(* and a captured variable has the field name of its own name.  Function   *)
(* and struct names are the numbers of the functions, "root" is 0.         *)
(***************************************************************************)
MaxChain == 3
MaxCaptured == 1

CAPTURES_SLOT == 2

\* the captures gather_captures finds in the body of function i: the
\* captured variables with their slots
Capture(name, ty, kind, index) == [name |-> name, ty |-> ty, kind |-> kind, index |-> index]

DeclaredIn(lets, i) ==
    [k \in 1 .. Len(lets) |->
        [c |-> Capture((10 * i) + k, lets[k].ty, "Index", ReservedSlots + (k - 1)),
         captured |-> lets[k].captured]]

IsCaptured(d) == d.captured

gather_captures(lets, i) ==
    [k \in 1 .. Len(SelectSeq(DeclaredIn(lets, i), IsCaptured)) |->
        SelectSeq(DeclaredIn(lets, i), IsCaptured)[k].c]

\* captures_to_pass_down: what the function received, now reached through
\* its captures record, and then its own
PassDown(captures, fn_captures) ==
    [k \in 1 .. Len(captures) |-> [captures[k] EXCEPT !.kind = "Field"]] \o fn_captures

\* the initialiser of one field of the record made for function name
OuterField(c, name) ==
    IF c.kind = "Field"
    THEN [name |-> c.name, from |-> "Field", index |-> 1, struct |-> name, field |-> c.name]
    ELSE [name |-> c.name, from |-> "Local", index |-> c.index, struct |-> 0, field |-> 0]

\* what flatten_stmt makes of function name declared in function prev: the
\* struct it pushes and the New of its LocalClosure
Hoisted(name, prev, captures, down) ==
    [name |-> name,
     struct |-> segregate_fields([k \in 1 .. Len(down) |->
                                     [name |-> down[k].name, ty |-> down[k].ty]]),
     record |-> prev,
     fields |-> [k \in 1 .. Len(captures) |-> OuterField(captures[k], name)],
     captures |-> captures]

RECURSIVE FlattenChain(_, _, _)
FlattenChain(levels, i, captures) ==
    IF i > Len(levels) THEN << >>
    ELSE <<Hoisted(i, i - 1, captures, PassDown(captures, gather_captures(levels[i], i)))>>
         \o FlattenChain(levels, i + 1, PassDown(captures, gather_captures(levels[i], i)))

\* lower_expr of one initialiser: a local, or a field of a local at the
\* offset the field has in the struct named
lower_field(fns, init) ==
    IF init.from = "Local" THEN [from |-> "Local", index |-> init.index, offset |-> 0]
    ELSE [from |-> "Field", index |-> init.index,
          offset |-> get_field_offset(fns[init.struct].struct.fields, init.field, 1)]

LowerClosure(fns, fn) ==
    [fn EXCEPT !.fields = [k \in 1 .. Len(fn.fields) |-> lower_field(fns, fn.fields[k])]]

(***************************************************************************)
(* Specification SpecClosure: a chain of nested functions is flattened     *)
(* and the closures are lowered.                                           *)
(***************************************************************************)
LetLists ==
    UNION {[1 .. n -> [ty : {Plain("Integer"), Plain("Struct"), Plain("String")},
                       captured : BOOLEAN]] : n \in 0 .. MaxCaptured}

InitClosure ==
    /\ Runtime
    /\ \E n \in 2 .. MaxChain : \E levels \in [1 .. n -> LetLists] :
           cu = [pass |-> "closure", levels |-> levels, stage |-> "analyzed", fns |-> << >>]

ClosureIdle == UNCHANGED <<fmem, trapped, ftypes, flive, fops, reuse, varVars, shadowVars, gcs, em>>

FlattenClosures ==
    /\ cu.pass = "closure" /\ cu.stage = "analyzed"
    /\ cu' = [cu EXCEPT !.stage = "flattened", !.fns = FlattenChain(cu.levels, 1, << >>)]
    /\ ClosureIdle

LowerClosures ==
    /\ cu.pass = "closure" /\ cu.stage = "flattened"
    /\ cu' = [cu EXCEPT !.stage = "lowered",
                        !.fns = [i \in 1 .. Len(cu.fns) |-> LowerClosure(cu.fns, cu.fns[i])]]
    /\ ClosureIdle

NextClosure == FlattenClosures \/ LowerClosures

SpecClosure == InitClosure /\ [][NextClosure]_vars

\* C24: in the closure made for function F nested in P, a field that
\* originates in P is initialised from P's local slot of the variable, and a
\* field that originates further out by reading P's captures pointer (local
\* slot 2) at the offset the field has in the struct of the record P received
C24_CaptureFieldsInitialised ==
    (cu.pass = "closure" /\ cu.stage = "lowered") =>
        \A i \in 2 .. Len(cu.fns) : \A k \in 1 .. Len(cu.fns[i].fields) :
            IF cu.fns[i].captures[k].name \div 10 = i - 1
            THEN /\ cu.fns[i].fields[k].from = "Local"
                 /\ cu.fns[i].fields[k].index
                        = ReservedSlots + ((cu.fns[i].captures[k].name % 10) - 1)
            ELSE /\ cu.fns[i].fields[k].from = "Field"
                 /\ cu.fns[i].fields[k].index = CAPTURES_SLOT
                 /\ cu.fns[i].fields[k].offset
                        = get_field_offset(cu.fns[i - 2].struct.fields,
                                           cu.fns[i].captures[k].name, 1)

(***************************************************************************)
(* The allocation sites against the words of the shadow stack.             *)
(***************************************************************************)
\* the addresses of the words of the slots of the frames of the calls in progress
FrameWords ==
    UNION {{em.calls[c].base + (4 * i) : i \in 0 .. ((2 * (1 + Len(em.calls[c].vals))) - 1)} :
               c \in 1 .. Len(em.calls)}

\* the allocation site left the stack pointer, the frame pointer and the
\* slots of the live frames as they are now
KeepsShadow(x) ==
    x.ok =>
        /\ read_u32(x.s, STACK_POINTER_ADDR) = read_u32(smem, STACK_POINTER_ADDR)
        /\ read_u32(x.s, FRAME_POINTER_ADDR) = read_u32(smem, FRAME_POINTER_ADDR)
        /\ \A a \in FrameWords : read_u32(x.s, a) = read_u32(smem, a)

\* C25: an allocate-or-collect-and-retry sequence (park, reload, allocate,
\* on 0 collect and retry), run in any state of a running function, leaves
\* the stack_pointer word, the frame_pointer word and every slot of every
\* live frame as they were before it: here the sequence of a string literal
\* and that of a `new`
C25_SitesKeepTheShadowStack ==
    (~trapped /\ em.calls # << >>) =>
        /\ \A len \in 1 .. MaxStrLen : KeepsShadow(StrLit(Now, len, {}))
        /\ KeepsShadow(NewRec(Now, StructType, <<0>>, {}))


(***************************************************************************)
(* Specification SpecStrings: a client of the variable heap that makes     *)
(* strings and lists of numbers the way the compiled program does: string  *)
(* literals and list literals at their allocation sites (type tag 1), and  *)
(* the number formatters ditoa, dbtoa and dftoa of the module dalloc (type *)
(* tag 2).  Nothing is freed, so the heap fills up and the formatters meet *)
(* a failing dalloc.                                                       *)
(***************************************************************************)
MaxStrOps == 3

\* write_u64: *(addr as *mut u64) = val, on the result of the steps before;
\* every val written is a byte, so the high word is 0
Put64(r, a, v) ==
    IF ~r.ok THEN r
    ELSE IF ~(InD(a) /\ InD(a + 4)) THEN Res(r.m, FALSE, r.ret)
    ELSE Res(write_u32(write_u32(r.m, a, v), a + 4, 0), TRUE, r.ret)

\* "while num > 0 { digits += 1; num /= 10; }"
RECURSIVE CountDigits(_)
CountDigits(num) == IF num = 0 THEN 0 ELSE 1 + CountDigits(num \div 10)

\* the number of elements ditoa asks dalloc for
Digits(i) ==
    IF i = 0 THEN 1 ELSE (IF i < 0 THEN 1 ELSE 0) + CountDigits(IF i < 0 THEN -i ELSE i)

\* "for j in 0..num_digits" of ditoa
RECURSIVE DigitLoop(_, _, _, _, _)
DigitLoop(r, num, j, offset, num_digits) ==
    IF ~r.ok \/ j >= num_digits THEN r
    ELSE DigitLoop(Put64(r, r.ret + ((offset + num_digits - j - 1) * 8), (num % 10) + 48),
                   num \div 10, j + 1, offset, num_digits)

ditoa(m, i) ==
    LET num == IF i < 0 THEN -i ELSE i
        offset == IF i < 0 THEN 1 ELSE 0
        str_addr == dalloc(m, 2, Digits(i))
    IN IF ~str_addr.ok \/ str_addr.ret = 0 THEN Res(str_addr.m, str_addr.ok, 0)
       ELSE DigitLoop(IF i < 0 THEN Put64(str_addr, str_addr.ret, 45) ELSE str_addr,
                      num, 0, offset, Digits(i) - offset)

\* the bytes of "false" and of "true"
FalseBytes == <<102, 97, 108, 115, 101>>
TrueBytes == <<116, 114, 117, 101>>

\* the write_u64 calls of dbtoa, one per byte, at str_addr whatever it is
RECURSIVE PutBytes(_, _, _)
PutBytes(r, bytes, k) ==
    IF ~r.ok \/ k > Len(bytes) THEN r
    ELSE PutBytes(Put64(r, r.ret + (8 * (k - 1)), bytes[k]), bytes, k + 1)

dbtoa(m, i) ==
    IF i = 0 THEN PutBytes(dalloc(m, 2, 5), FalseBytes, 1)
    ELSE PutBytes(dalloc(m, 2, 4), TrueBytes, 1)

\* "for i in 0..zeros_needed { write_u64(zeros + i * 8, b'0') }"
RECURSIVE PutZeros(_, _, _)
PutZeros(r, i, zeros_needed) ==
    IF ~r.ok \/ i >= zeros_needed THEN r
    ELSE PutZeros(Put64(r, r.ret + (i * 8), 48), i + 1, zeros_needed)

\* a step of dftoa on the heap the step before left; a trap stays a trap
Then(r, next) == IF r.ok THEN next ELSE Res(r.m, FALSE, 0)

\* dftoa from "let zeros_needed = 6 - frac_len" on
PaddedFrac(m, frac_str, zeros_needed) ==
    IF zeros_needed > 0
    THEN Then(PutZeros(dalloc(m, 2, zeros_needed), 0, zeros_needed),
              dconcat(PutZeros(dalloc(m, 2, zeros_needed), 0, zeros_needed).m,
                      dalloc(m, 2, zeros_needed).ret, frac_str))
    ELSE Res(m, TRUE, frac_str)

WithDot(padded_frac, int_str, dot_str) ==
    Then(padded_frac, dconcat(padded_frac.m, int_str, dot_str))

Joined(with_dot, padded_frac) ==
    Then(with_dot, dconcat(with_dot.m, with_dot.ret, padded_frac.ret))

\* dftoa from "let frac_len = read_u32(frac_str - 4)" on; a fraction below
\* 10^6 has at most 6 digits, and "6 - frac_len" of a longer one is out of
\* the range of u32
FtoaTail(m, int_str, dot_str, frac_str) ==
    IF ~InD(frac_str - 4) THEN Res(m, FALSE, 0)
    ELSE IF read_u32(m, frac_str - 4) > 6 THEN Res(m, FALSE, 0)
    ELSE Joined(WithDot(PaddedFrac(m, frac_str, 6 - read_u32(m, frac_str - 4)),
                        int_str, dot_str),
                PaddedFrac(m, frac_str, 6 - read_u32(m, frac_str - 4)))

\* dftoa after "let dot_str = dalloc(2, 1)"
FtoaFrac(dot, int_str, frac_part) ==
    Then(Put64(dot, dot.ret, 46),
         Then(ditoa(Put64(dot, dot.ret, 46).m, frac_part),
              FtoaTail(ditoa(Put64(dot, dot.ret, 46).m, frac_part).m, int_str, dot.ret,
                       ditoa(Put64(dot, dot.ret, 46).m, frac_part).ret)))

\* dftoa(value), given the two integers it derives from value
dftoa(m, int_part, frac_part) ==
    Then(ditoa(m, int_part),
         FtoaFrac(dalloc(ditoa(m, int_part).m, 2, 1), ditoa(m, int_part).ret, frac_part))

\* the i64.store of every element of a list literal
RECURSIVE StoreElems(_, _, _)
StoreElems(r, elems, k) ==
    IF ~r.ok \/ k > Len(elems) THEN r
    ELSE StoreElems(Put64(r, r.ret + (8 * (k - 1)), elems[k]), elems, k + 1)

\* the i32.store of every byte of a string literal
RECURSIVE StoreChars(_, _, _)
StoreChars(r, i, len) ==
    IF ~r.ok \/ i >= len THEN r
    ELSE IF ~InD(r.ret + (i * 8)) THEN Res(r.m, FALSE, r.ret)
    ELSE StoreChars(Res(write_u32(r.m, r.ret + (i * 8), StrByte), TRUE, r.ret), i + 1, len)

\* the allocation sites of a string literal and of a list literal: dalloc
\* is called with type 1
StringSite(m, len) == dalloc(m, 1, len)
ListSite(m, elems) == dalloc(m, 1, Len(elems))

\* the bytes a free block and its header and trailer take
RECURSIVE FreeBytes(_, _, _)
FreeBytes(m, a, fuel) ==
    IF a >= memory_size \/ fuel = 0 THEN 0
    ELSE (IF read_u32(m, a) = 0 THEN BLOCK_OVERHEAD + read_u32(m, a + 8) ELSE 0)
         + FreeBytes(m, a + BLOCK_OVERHEAD + read_u32(m, a + 8), fuel - 1)

\* the bytes a string of n elements takes
StringBytes(n) == BLOCK_OVERHEAD + (8 * n)

\* the bytes of all the strings dftoa makes: the two parts, the dot, the
\* zeros, the padded fraction and the two joins
FtoaBytes(int_part, frac_part) ==
    StringBytes(Digits(int_part)) + StringBytes(1) + StringBytes(Digits(frac_part))
    + (IF Digits(frac_part) < 6
       THEN StringBytes(6 - Digits(frac_part)) + StringBytes(6) ELSE 0)
    + StringBytes(Digits(int_part) + 1) + StringBytes(Digits(int_part) + 7)

\* the numbers formatted, the fractions in millionths, and the elements of
\* the lists
FormattedIntegers == {-1, 0, 12}
Fractions == {0, 500000}
Numbers == {0, 44}
ListsOfNumbers == UNION {[1 .. n -> Numbers] : n \in 0 .. MaxStrLen}

StringsIdle == [pass |-> "strings", op |-> "none", ret |-> 0, before |-> EmptyMem,
                short |-> FALSE, intact |-> TRUE, made |-> << >>]

InitStrings == Runtime /\ cu = StringsIdle

\* the heap and the bookkeeping after a call that returned r
Made(r, op, short) ==
    /\ dmem' = r.m
    /\ trapped' = ~r.ok
    /\ dlive' = dlive
    /\ dops' = dops + 1
    /\ cu' = [cu EXCEPT !.op = op, !.ret = r.ret, !.before = dmem, !.short = short,
                        !.intact = cu.intact /\ r.ok /\ (short => r.m = dmem),
                        !.made = IF r.ok /\ r.ret # 0 THEN (r.ret :> op) @@ cu.made
                                 ELSE cu.made]
    /\ UNCHANGED <<fixedVars, coal, shadowVars, gcs, em>>

Calling == cu.pass = "strings" /\ ~trapped /\ dops < MaxStrOps

StringLiteral(len) ==
    /\ Calling
    /\ Made(StoreChars(StringSite(dmem, len), 0, len), "literal",
            StringSite(dmem, len).ret = 0)

ListLiteral(elems) ==
    /\ Calling
    /\ Made(StoreElems(ListSite(dmem, elems), elems, 1), "numbers",
            ListSite(dmem, elems).ret = 0)

Itoa(i) ==
    /\ Calling
    /\ Made(ditoa(dmem, i), "itoa", dalloc(dmem, 2, Digits(i)).ret = 0)

Btoa(i) ==
    /\ Calling
    /\ Made(dbtoa(dmem, i), "btoa", dalloc(dmem, 2, IF i = 0 THEN 5 ELSE 4).ret = 0)

Ftoa(int_part, frac_part) ==
    /\ Calling
    /\ Made(dftoa(dmem, int_part, frac_part), "ftoa",
            FreeBytes(dmem, START, VarMemUnits) < FtoaBytes(int_part, frac_part))

NextStrings ==
    \/ \E len \in 0 .. MaxStrLen : StringLiteral(len)
    \/ \E elems \in ListsOfNumbers : ListLiteral(elems)
    \/ \E i \in FormattedIntegers : Itoa(i)
    \/ \E i \in {0, 1} : Btoa(i)
    \/ \E ip \in FormattedIntegers, fp \in Fractions : Ftoa(ip, fp)

SpecStrings == InitStrings /\ [][NextStrings]_vars

\* the heaps after gc marked the rooted block p of the variable heap
MarkedFrom(p) == mark_pointer(Heaps(fmem, dmem, TRUE), smem, p, 2)

\* C26: marking a rooted string (of a literal or of itoa, btoa, ftoa) or a
\* rooted list of numbers sets the mark word of that block and changes nothing
\* else in either heap: the type tag the block got when it was allocated makes
\* mark_pointer leave its elements alone.
C26_NumbersAreNotFollowed ==
    (cu.pass = "strings" /\ ~trapped /\ cu.intact) =>
        \A p \in DOMAIN cu.made :
            /\ MarkedFrom(p).ok
            /\ MarkedFrom(p).f = fmem
            /\ MarkedFrom(p).d = write_u32(dmem, p - 12, 1)

\* C29: a call of ditoa, dbtoa or dftoa that finds no free block large enough
\* for a string it makes returns 0 and leaves every word of the variable heap
\* as it was.
C29_FormattersFailClean ==
    (cu.pass = "strings" /\ cu.op \in {"itoa", "btoa", "ftoa"} /\ cu.short) =>
        /\ ~trapped
        /\ cu.ret = 0
        /\ dmem = cu.before


(***************************************************************************)
(* Specification SpecHeaps: a client of one of the two allocators that     *)
(* keeps a record of every pointer it was given and has not freed: the     *)
(* block of the pointer (header, payload and trailer, of the size asked    *)
(* for) and whether the pointer was handed out while the client still held *)
(* it.  The two allocators share no memory, so a client is followed on one *)
(* heap at a time: falloc, ffree and sweep on the fixed heap; dalloc,      *)
(* dfree, sweep, dconcat and dslice on the variable heap.                  *)
(***************************************************************************)
dslice(m, ptr, start, end) ==
    IF ~InD(ptr - 16) THEN Res(m, FALSE, 0)
    ELSE CopyInto(dalloc(m, read_u32(m, ptr - 16), end - start),
                  ptr + (start * 8), 0, end - start)

Extent(from, to) == [from |-> from, to |-> to]

Overlap(a, b) == a.from < b.to /\ b.from < a.to

\* the block of a record of type id at pointer p, and of a list of length
\* elements at pointer p
RecordBlock(p, id) == Extent(p - HEADER_SIZE, p + ftypes[id + 1][1])
ListBlock(p, length) == Extent(p - USER_OFFSET, p + (8 * length) + 4)

\* the link of the free block at block address a; 0 ends a list
NextFree(m, a) == IF a = 0 \/ ~InF(a + HEADER_SIZE) THEN 0 ELSE read_u32(m, a + HEADER_SIZE)

\* the block k links after block address a; the hops are halved only to keep
\* the evaluation shallow
RECURSIVE Hop(_, _, _)
Hop(m, a, k) ==
    IF a = 0 \/ k = 0 THEN a
    ELSE IF k = 1 THEN NextFree(m, a)
    ELSE Hop(m, Hop(m, a, k \div 2), k - (k \div 2))

\* the blocks on the freelist that starts at block address a, of a type of
\* size bytes; at most MaxFixedOps slabs were carved
OnList(m, a, size) ==
    {Extent(Hop(m, a, k), Hop(m, a, k) + HEADER_SIZE + size) :
        k \in {j \in 0 .. (SLAB_BLOCKS * MaxFixedOps) : Hop(m, a, j) # 0}}

FixedFreeBlocks ==
    UNION {OnList(fmem, FreelistHead(fmem, t), ftypes[t + 1][1]) : t \in TypeIds}

\* the free blocks met walking the variable heap from block address a
RECURSIVE VarFreeBlocks(_, _, _)
VarFreeBlocks(m, a, fuel) ==
    IF a >= memory_size \/ fuel = 0 \/ ~InD(a + 8) THEN {}
    ELSE (IF read_u32(m, a) = 0
          THEN {Extent(a, a + BLOCK_OVERHEAD + read_u32(m, a + 8))} ELSE {})
         \cup VarFreeBlocks(m, a + BLOCK_OVERHEAD + read_u32(m, a + 8), fuel - 1)

HeapsIdle(heap) == [pass |-> "heaps", heap |-> heap, live |-> << >>, twice |-> FALSE]

InitHeaps == Runtime /\ cu \in {HeapsIdle("fixed"), HeapsIdle("variable")}

OnFixed == cu.pass = "heaps" /\ cu.heap = "fixed" /\ ~trapped /\ fops < MaxFixedOps
OnVar == cu.pass = "heaps" /\ cu.heap = "variable" /\ ~trapped /\ dops < MaxVarOps

\* the client's record after the allocator returned r for a block
Given(r, block) ==
    IF r.ok /\ r.ret # 0
    THEN [cu EXCEPT !.live = (r.ret :> block) @@ cu.live,
                    !.twice = cu.twice \/ r.ret \in DOMAIN cu.live]
    ELSE cu

\* a call on the fixed heap that returned r
FixedCall(r, next) ==
    /\ fmem' = r.m
    /\ trapped' = ~r.ok
    /\ fops' = fops + 1
    /\ cu' = next
    /\ UNCHANGED <<ftypes, flive, reuse, varVars, shadowVars, gcs, em>>

\* a call on the variable heap that returned r
VarCall(r, next) ==
    /\ dmem' = r.m
    /\ trapped' = ~r.ok
    /\ dops' = dops + 1
    /\ cu' = next
    /\ UNCHANGED <<fixedVars, dlive, coal, shadowVars, gcs, em>>

HeapRegister(shape) ==
    /\ cu.pass = "heaps" /\ cu.heap = "fixed" /\ ~trapped
    /\ fops = 0 /\ Len(ftypes) < MaxTypes
    /\ fmem' = register(fmem, shape[1], shape[2], shape[3]).m
    /\ trapped' = ~register(fmem, shape[1], shape[2], shape[3]).ok
    /\ ftypes' = Append(ftypes, shape)
    /\ UNCHANGED <<flive, fops, reuse, varVars, shadowVars, gcs, em, cu>>

HeapFalloc(id) ==
    /\ OnFixed /\ id \in TypeIds /\ Cardinality(DOMAIN cu.live) < MaxLive
    /\ FixedCall(falloc(fmem, id), Given(falloc(fmem, id), RecordBlock(falloc(fmem, id).ret, id)))

HeapFfree(p) ==
    /\ OnFixed /\ p \in DOMAIN cu.live
    /\ FixedCall(ffree(fmem, p), [cu EXCEPT !.live = Without(cu.live, p)])

HeapMarkRecord(p) ==
    /\ OnFixed /\ p \in DOMAIN cu.live
    /\ read_u32(fmem, p - 4) # 1
    /\ FixedCall(Res(write_u32(fmem, p - 4, 1), TRUE, 0), cu)

HeapSweep ==
    /\ OnFixed /\ fops > 0
    /\ FixedCall(sweep(fmem),
                 [cu EXCEPT !.live = [p \in {q \in DOMAIN cu.live : read_u32(fmem, q - 4) = 1}
                                        |-> cu.live[p]]])

HeapDalloc(ty, length) ==
    /\ OnVar
    /\ VarCall(dalloc(dmem, ty, length),
               Given(dalloc(dmem, ty, length), ListBlock(dalloc(dmem, ty, length).ret, length)))

HeapDfree(p) ==
    /\ OnVar /\ p \in DOMAIN cu.live
    /\ VarCall(dfree(dmem, p), [cu EXCEPT !.live = Without(cu.live, p)])

HeapMarkBlock(p) ==
    /\ OnVar /\ p \in DOMAIN cu.live
    /\ read_u32(dmem, p - 12) # 1
    /\ VarCall(Res(write_u32(dmem, p - 12, 1), TRUE, 0), cu)

HeapDSweep ==
    /\ OnVar
    /\ VarCall(dsweep(dmem),
               [cu EXCEPT !.live = [p \in {q \in DOMAIN cu.live : read_u32(dmem, q - 12) = 1}
                                      |-> cu.live[p]]])

HeapDconcat(first, second) ==
    /\ OnVar /\ first \in DOMAIN cu.live /\ second \in DOMAIN cu.live
    /\ VarCall(dconcat(dmem, first, second),
               Given(dconcat(dmem, first, second),
                     ListBlock(dconcat(dmem, first, second).ret,
                               read_u32(dmem, first - 4) + read_u32(dmem, second - 4))))

HeapDslice(ptr, start, end) ==
    /\ OnVar /\ ptr \in DOMAIN cu.live
    /\ start <= end /\ end <= read_u32(dmem, ptr - 4)
    /\ VarCall(dslice(dmem, ptr, start, end),
               Given(dslice(dmem, ptr, start, end),
                     ListBlock(dslice(dmem, ptr, start, end).ret, end - start)))

NextHeaps ==
    \/ \E shape \in FixedShapes : HeapRegister(shape)
    \/ \E id \in 0 .. (MaxTypes - 1) : HeapFalloc(id)
    \/ \E p \in DOMAIN cu.live : HeapFfree(p)
    \/ \E p \in DOMAIN cu.live : HeapMarkRecord(p)
    \/ HeapSweep
    \/ \E ty \in VarTags, length \in 0 .. MaxVarLen : HeapDalloc(ty, length)
    \/ \E p \in DOMAIN cu.live : HeapDfree(p)
    \/ \E p \in DOMAIN cu.live : HeapMarkBlock(p)
    \/ HeapDSweep
    \/ \E p \in DOMAIN cu.live, q \in DOMAIN cu.live : HeapDconcat(p, q)
    \/ \E p \in DOMAIN cu.live, i \in 0 .. MaxVarLen, j \in 0 .. MaxVarLen : HeapDslice(p, i, j)

SpecHeaps == InitHeaps /\ [][NextHeaps]_vars

\* the free blocks of the heap the client is on
FreeBlocksNow ==
    IF cu.heap = "fixed" THEN FixedFreeBlocks ELSE VarFreeBlocks(dmem, START, VarMemUnits)

\* C27: no double allocation in either heap: after any sequence of allocator
\* calls, with frees of pointers the client holds only, no pointer was given
\* out while the client held it, and the blocks of the pointers held overlap
\* neither each other nor any free block.
C27_NoDoubleAllocation ==
    (cu.pass = "heaps" /\ ~trapped) =>
        /\ ~cu.twice
        /\ \A p \in DOMAIN cu.live, q \in DOMAIN cu.live :
               p # q => ~Overlap(cu.live[p], cu.live[q])
        /\ \A p \in DOMAIN cu.live, b \in FreeBlocksNow : ~Overlap(cu.live[p], b)


(***************************************************************************)
(* Specification SpecIndex: the function indices.  The locals indexer      *)
(* gives every Function statement its fn_index, the flattener copies it    *)
(* into the LocalClosure that stands for the declaration and lists the     *)
(* functions, and the emitter makes the function table from that list.     *)
(* The program is main, with blocks nested as in SpecFlatten, and possibly *)
(* one more top-level function, before or after main, that may declare a   *)
(* function of its own.                                                    *)
(***************************************************************************)
\* the names of the other functions, beside those of the spine
HelperName == MainName + 1
InnerName == (2 * MaxDepth) + 2

\* the state of the indexer that matters here: self.fn_count and the
\* fn_index of the Function statements analysed so far, by name
Indexed(fn_count, fn_index) == [fn_count |-> fn_count, fn_index |-> fn_index]

RECURSIVE analyze_stmt(_, _)
RECURSIVE AnalyzeFrom(_, _, _)

AnalyzeFrom(stmts, i, acc) ==
    IF i > Len(stmts) THEN acc
    ELSE AnalyzeFrom(stmts, i + 1, analyze_stmt(stmts[i], acc))

AnalyzeBlock(stmts, acc) == AnalyzeFrom(stmts, 1, acc)

\* Function, after its body: "let mut fn_index = self.fn_count; if name ==
\* "main" { fn_index = 0; } self.fn_count += 1;"
Numbered(stmt, acc) ==
    Indexed(acc.fn_count + 1,
            (stmt.id :> (IF stmt.id = MainName THEN 0 ELSE acc.fn_count)) @@ acc.fn_index)

analyze_stmt(stmt, acc) ==
    IF stmt.k = "fn" THEN Numbered(stmt, AnalyzeBlock(stmt.a, acc))
    ELSE IF stmt.k = "if" THEN AnalyzeBlock(stmt.b, AnalyzeBlock(stmt.a, acc))
    ELSE IF stmt.k = "while" THEN AnalyzeBlock(stmt.a, acc)
    ELSE IF stmt.k = "for" THEN AnalyzeBlock(stmt.a, AnalyzeBlock(stmt.b, acc))
    ELSE acc

\* analyze_program: main is moved to the front of the statements, and the
\* statements are analysed in that order by an indexer whose fn_count is 1
analyze_program(program) == AnalyzeBlock(Moved(program), Indexed(1, << >>))

\* a top-level function beside main: none, one without and one with a
\* function declared in it
Helpers ==
    { << >>,
      <<Stmt("fn", HelperName, <<Leaf>>, << >>)>>,
      <<Stmt("fn", HelperName, <<Stmt("fn", InnerName, <<Leaf>>, << >>), Leaf>>, << >>)>> }

MainOf(spine) == <<Stmt("fn", MainName, <<Nest(spine, 1)>>, << >>)>>

Sources == {h \o MainOf(spine) : h \in Helpers, spine \in Spines}
           \cup {MainOf(spine) \o h : h \in Helpers, spine \in Spines}

InitIndex ==
    /\ Runtime
    /\ \E source \in Sources :
           cu = [pass |-> "index", source |-> source, step |-> "typed", statements |-> << >>,
                 fn_index |-> << >>, functions |-> << >>, table |-> << >>]

IndexIdle == UNCHANGED <<fmem, trapped, ftypes, flive, fops, reuse, varVars, shadowVars, gcs, em>>

\* LocalsIndexer::analyze_program
IndexProgram ==
    /\ cu.pass = "index" /\ cu.step = "typed"
    /\ cu' = [cu EXCEPT !.step = "analyzed", !.statements = Moved(cu.source),
                        !.fn_index = analyze_program(cu.source).fn_index]
    /\ IndexIdle

\* Flattener::flatten_program
FlattenProgram ==
    /\ cu.pass = "index" /\ cu.step = "analyzed"
    /\ cu' = [cu EXCEPT !.step = "flattened", !.functions = flatten_program(cu.statements)]
    /\ IndexIdle

\* Codegen::compile: the table has one entry per function of the list, and
\* the element segment fills it in the order of the list
CompileTable ==
    /\ cu.pass = "index" /\ cu.step = "flattened"
    /\ cu' = [cu EXCEPT !.step = "compiled",
                        !.table = [i \in 1 .. Len(cu.functions) |-> cu.functions[i].id]]
    /\ IndexIdle

NextIndex == IndexProgram \/ FlattenProgram \/ CompileTable

SpecIndex == InitIndex /\ [][NextIndex]_vars

\* the functions a LocalClosure of the output makes a closure value of
Packed == {id \in DOMAIN cu.fn_index : Closures(cu.functions, 1, id) > 0}

\* the entry of the table, counted from 0, that holds function id
EntryOf(id) == (CHOOSE i \in 1 .. Len(cu.table) : cu.table[i] = id) - 1

\* C28: the fn_index a LocalClosure packs into the closure value of a function
\* is the position of that function in the flattened list, which is its entry
\* in the function table, and it is smaller than the size of the table; main
\* has fn_index 0 and is the first entry.
C28_IndexIsTableEntry ==
    (cu.pass = "index" /\ cu.step = "compiled") =>
        /\ cu.fn_index[MainName] = 0 /\ cu.table[1] = MainName
        /\ \A id \in Packed :
               /\ cu.fn_index[id] < Len(cu.table)
               /\ cu.fn_index[id] = EntryOf(id)

====
